---- MODULE Spec2Model ----
(***************************************************************************)
(* Verification model of the DEV.to analytics repository:                  *)
(*   - the cron sync worker and its PostgreSQL advisory lock               *)
(*     (scripts/sync_worker.py),                                           *)
(*   - the proximity matcher find_closest_snapshot (app/db/connection.py), *)
(*   - the Share-of-Voice follower attribution, in its two versions        *)
(*     (app/services/analytics_service.py and app/db/queries.py),          *)
(*   - the quality score (app/services/analytics_service.py).              *)
(*                                                                         *)
(* Each part has its own next-state relation over the shared variables;    *)
(* a part's specification leaves the other parts' variables unchanged.     *)
(***************************************************************************)
EXTENDS Integers, Sequences, FiniteSets, TLC

VARIABLES
    \* ---- sync worker (scripts/sync_worker.py) ----
    pc,             \* position of each invocation of run_sync_pipeline
    engine,         \* local `engine`: TRUE once create_async_engine returned
    lock_acquired,  \* local `lock_acquired`
    tryLock,        \* what pg_try_advisory_lock answered in this invocation
    lockOwner,      \* the invocations whose database session holds lock 98765 (a set)
    exitCode,       \* <<value returned by run_sync_pipeline>>, <<>> before it returns
    writes,         \* store-writing phases this invocation has carried out
    releaseCalled,  \* release_advisory_lock was called in this invocation
    \* ---- snapshot store (app/db/tables.py) ----
    article_metrics,  \* rows of table article_metrics
    follower_events,  \* rows of table follower_events
    \* ---- last read operation on the store and what it returned ----
    call,           \* the operation and its arguments
    result,         \* its return value
    \* ---- quality scorer ----
    qin,            \* the aggregated row handed to the scorer
    qout,           \* what the scorer computed for it
    \* ---- comment analysis (app/services/nlp_service.py) ----
    comment_rows,      \* rows of table comments
    comment_insights,  \* committed rows of table comment_insights
    written,           \* per comment: committed insight writes so far (0, 1, 2 = more)
    npc,               \* position of each run of process_pending_comments
    limit,             \* its `limit` argument, <<>> for None
    pending,           \* the part of its `pending` list not yet processed
    inBatch,           \* comments of the current batch still to process
    tx,                \* insight rows written in its open transaction
    processed,         \* its counts['processed']
    queried,           \* the pending set as its query returned it
    undisturbed,       \* no comment row was added since its query
    afterDrain,        \* its query ran after the queue was drained
    lostAtCrash,       \* insights its last crash rolled back (comment ids)
    drained,           \* a run without limit completed, no comment row added since
    \* ---- daily rollups (DevToService._sync_daily_analytics) ----
    daily_analytics,   \* rows of table daily_analytics
    dailyFetched,      \* per (article_id, date): <<page_views>> of the last completed sync
    \* ---- full sync (DevToService.sync_all) ----
    stage,             \* the sub-pipeline sync_all is in, or idle / done / raised
    outcomes,          \* per (sub-pipeline, entity) of this run: how its step went
    openTx,            \* records written in the open transaction of the sub-pipeline
    stored,            \* committed records, as (sub-pipeline, entity)
    new_comments,      \* local `new_comments` of sync_comments
    summary,           \* <<the dict sync_all returned>>, <<>> when it has not returned
    \* ---- theme classification (app/services/theme_service.py) ----
    latest_text,            \* per article: the keywords its latest title and tag_list contain
    free_created,           \* the Free Exploration theme exists in author_themes
    article_theme_mapping,  \* rows of table article_theme_mapping
    \* ---- killed invocations of the sync worker ----
    kills,                  \* invocations killed so far
    doneAtKill,             \* the invocations that had returned when the last one was killed
    \* ---- background sync task of the API (app/api/main.py) ----
    apiStage,               \* "idle", or the mode of the sync_background task that is running
    \* ---- traffic sources (DevToService._sync_referrers) ----
    referrers               \* rows of table referrers

syncVars  == <<pc, engine, lock_acquired, tryLock, lockOwner, exitCode, writes, releaseCalled>>
storeVars == <<article_metrics, follower_events>>
readVars  == <<call, result>>
qualVars  == <<qin, qout>>
nlpVars   == <<comment_rows, comment_insights, written, npc, limit, pending, inBatch, tx,
               processed,
               queried, undisturbed, afterDrain, lostAtCrash, drained>>
dailyVars == <<daily_analytics, dailyFetched>>
pipeVars  == <<stage, outcomes, openTx, stored, new_comments, summary>>
themeVars == <<latest_text, free_created, article_theme_mapping>>
killVars == <<kills, doneAtKill>>
apiVars == <<apiStage>>
refVars == <<referrers>>
vars      == <<syncVars, storeVars, readVars, qualVars, nlpVars, dailyVars, pipeVars, themeVars, killVars, apiVars, refVars>>

\* Python's None, as the name of "no operation" and as a missing row.
None == "None"
NoRow == [none |-> TRUE]

(***************************************************************************)
(* Bounds of the model.                                                    *)
(***************************************************************************)
NumProcs == 2          \* concurrent invocations of the sync worker
MaxTick == 2           \* snapshots are collected at ticks 0..MaxTick
TickHours == 4         \* hours between two ticks
MaxViews == 2          \* largest page_views_count the API reports
MaxFollowers == 2      \* largest follower count the API reports
MaxToleranceHours == 8 \* largest tolerance_hours a caller passes
MaxWindowTicks == 2    \* longest analysis period of an attribution, in ticks
MaxReadingMinutes == 1 \* largest reading_time_minutes of an article
AvgStepSeconds == 30   \* average read times are multiples of this
MaxAvgSteps == 3       \* largest average read time, in steps
ViewStep == 10         \* 90-day view counts are multiples of this
MaxViewSteps == 2      \* largest 90-day view count, in steps
MaxCount == 1          \* largest 90-day reaction count and comment count
MaxComments == 2       \* comment rows the comments table can hold
BatchSize == 1         \* batch_size of the comment analysis

Procs == 1..NumProcs

\* Article ids and titles the external API reports.
Articles == {1, 2}
Titles == {"t1", "t2"}

\* Timestamps (in hours) at which a sync can run.
Times == {TickHours * k : k \in 0..MaxTick}

(***************************************************************************)
(* The state after construction: no invocation started, an empty store, no  *)
(* read operation made yet.                                                *)
(***************************************************************************)
InitSync ==
    /\ pc = [p \in Procs |-> "idle"]
    /\ engine = [p \in Procs |-> FALSE]
    /\ lock_acquired = [p \in Procs |-> FALSE]
    /\ tryLock = [p \in Procs |-> "none"]
    /\ lockOwner = {}
    /\ exitCode = [p \in Procs |-> <<>>]
    /\ writes = [p \in Procs |-> 0]
    /\ releaseCalled = [p \in Procs |-> FALSE]

InitStore ==
    /\ article_metrics = {}
    /\ follower_events = {}

InitRead ==
    /\ call = [op |-> None]
    /\ result = NoRow

InitQuality ==
    /\ qin = [op |-> None]
    /\ qout = NoRow

\* Runs of process_pending_comments that can be under way at a time.
Workers == {1, 2}

\* Ids of the comment rows, handed out in this order.
CommentIds == 1..MaxComments

InitNlp ==
    /\ comment_rows = {}
    /\ comment_insights = {}
    /\ written = [c \in CommentIds |-> 0]
    /\ npc = [w \in Workers |-> "idle"]
    /\ limit = [w \in Workers |-> <<>>]
    /\ pending = [w \in Workers |-> <<>>]
    /\ inBatch = [w \in Workers |-> 0]
    /\ tx = [w \in Workers |-> {}]
    /\ processed = [w \in Workers |-> 0]
    /\ queried = [w \in Workers |-> {}]
    /\ undisturbed = [w \in Workers |-> FALSE]
    /\ afterDrain = [w \in Workers |-> FALSE]
    /\ lostAtCrash = [w \in Workers |-> {}]
    /\ drained = FALSE

Days == {1, 2}   \* the dates of the analytics window

InitDaily ==
    /\ daily_analytics = {}
    /\ dailyFetched = [k \in Articles \X Days |-> <<>>]

\* The sub-pipelines of sync_all in the order it awaits them, and what each
\* works through: the articles in the order the API lists them, or the one
\* follower count (entity 0).
Subs == <<"articles", "followers", "comments", "rich">>
SubNames == {Subs[i] : i \in DOMAIN Subs}
ArticleList == <<1, 2>>
Entities(sub) == IF sub = "followers" THEN <<0>> ELSE ArticleList
EntityKeys == UNION {{<<sub, Entities(sub)[i]>> : i \in DOMAIN Entities(sub)} : sub \in SubNames}

InitPipe ==
    /\ stage = "idle"
    /\ outcomes = [k \in EntityKeys |-> "none"]
    /\ openTx = {}
    /\ stored = {}
    /\ new_comments = 0
    /\ summary = <<>>

\* The keywords a title or tag_list can contain, and the seeded themes with
\* their keywords; the theme "free" (Free Exploration, no keywords) is
\* created by the first classification without a match.
Words == {"w1", "w2"}
DEFAULT_THEMES == [t1 |-> {"w1"}, t2 |-> {"w1", "w2"}]

InitTheme ==
    /\ latest_text = [a \in Articles |-> {}]
    /\ free_created = FALSE
    /\ article_theme_mapping = {}

MaxKills == 1   \* invocations killed in one behaviour

InitKill ==
    /\ kills = 0
    /\ doneAtKill = {}

InitApi == apiStage = "idle"

InitReferrers == referrers = {}

Init == InitSync /\ InitStore /\ InitRead /\ InitQuality /\ InitNlp /\ InitDaily /\ InitPipe /\ InitTheme /\ InitKill /\ InitApi /\ InitReferrers

(***************************************************************************)
(* SYNC WORKER                                                             *)
(***************************************************************************)
\* The worker's control state is all a step of this part changes.
SyncStep == UNCHANGED <<storeVars, readVars, qualVars, nlpVars, dailyVars, pipeVars, themeVars, killVars, apiVars, refVars>>

\* Statements of the try block that run after the engine exists.
TryStages == {"acquire", "apikey", "phase1", "phase2", "phase3", "phase4"}

\* The four phases that write to the store: collection, enrichment,
\* classification, cache refresh.
WritePhases == {"phase1", "phase2", "phase3", "phase4"}

NextPhase(s) ==
    CASE s = "phase1" -> "phase2"
      [] s = "phase2" -> "phase3"
      [] s = "phase3" -> "phase4"
      [] s = "phase4" -> "finally_release"

\* A new invocation of the worker (cron starts the script): the locals of
\* run_sync_pipeline get their initial values.
Start(p) ==
    /\ SyncStep
    /\ pc[p] \in {"idle", "done"}
    /\ pc' = [pc EXCEPT ![p] = "connect"]
    /\ engine' = [engine EXCEPT ![p] = FALSE]
    /\ lock_acquired' = [lock_acquired EXCEPT ![p] = FALSE]
    /\ tryLock' = [tryLock EXCEPT ![p] = "none"]
    /\ exitCode' = [exitCode EXCEPT ![p] = <<>>]
    /\ writes' = [writes EXCEPT ![p] = 0]
    /\ releaseCalled' = [releaseCalled EXCEPT ![p] = FALSE]
    /\ UNCHANGED lockOwner

\* get_database_url and create_async_engine succeed.
ConnectOk(p) ==
    /\ SyncStep
    /\ pc[p] = "connect"
    /\ pc' = [pc EXCEPT ![p] = "acquire"]
    /\ engine' = [engine EXCEPT ![p] = TRUE]
    /\ UNCHANGED <<lock_acquired, tryLock, lockOwner, exitCode, writes, releaseCalled>>

\* get_database_url raises ValueError (POSTGRES_USER or POSTGRES_PASSWORD
\* missing): `except Exception` returns 1 with engine still None.
ConnectFail(p) ==
    /\ SyncStep
    /\ pc[p] = "connect"
    /\ pc' = [pc EXCEPT ![p] = "finally_release"]
    /\ exitCode' = [exitCode EXCEPT ![p] = <<1>>]
    /\ UNCHANGED <<engine, lock_acquired, tryLock, lockOwner, writes, releaseCalled>>

\* (mutant) the lock is granted whoever holds it.
TryAdvisoryLockAlways(p) == TRUE

\* pg_try_advisory_lock(98765): granted exactly when no other session holds
\* the lock; the lock then belongs to the session of p's pooled connection.
TryAdvisoryLock(p) == lockOwner \subseteq {p}

\* acquire_advisory_lock plus the `if not lock_acquired: return 0` that follows.
AcquireLock(p) ==
    /\ SyncStep
    /\ pc[p] = "acquire"
    /\ IF TryAdvisoryLock(p)
         THEN /\ lockOwner' = {p}
              /\ lock_acquired' = [lock_acquired EXCEPT ![p] = TRUE]
              /\ tryLock' = [tryLock EXCEPT ![p] = "granted"]
              /\ pc' = [pc EXCEPT ![p] = "apikey"]
              /\ UNCHANGED exitCode
         ELSE /\ UNCHANGED lockOwner
              /\ lock_acquired' = [lock_acquired EXCEPT ![p] = FALSE]
              /\ tryLock' = [tryLock EXCEPT ![p] = "denied"]
              /\ exitCode' = [exitCode EXCEPT ![p] = <<0>>]
              /\ pc' = [pc EXCEPT ![p] = "finally_release"]
    /\ UNCHANGED <<engine, writes, releaseCalled>>

\* os.getenv('DEVTO_API_KEY') is set.
ApiKeyOk(p) ==
    /\ SyncStep
    /\ pc[p] = "apikey"
    /\ pc' = [pc EXCEPT ![p] = "phase1"]
    /\ UNCHANGED <<engine, lock_acquired, tryLock, lockOwner, exitCode, writes, releaseCalled>>

\* A phase runs to its end: its writes are in the store.
PhaseDone(p) ==
    /\ SyncStep
    /\ pc[p] \in WritePhases
    /\ pc' = [pc EXCEPT ![p] = NextPhase(pc[p])]
    /\ writes' = [writes EXCEPT ![p] = @ + 1]
    /\ exitCode' = [exitCode EXCEPT ![p] = IF pc[p] = "phase4" THEN <<0>> ELSE @]
    /\ UNCHANGED <<engine, lock_acquired, tryLock, lockOwner, releaseCalled>>

\* Anything in the try block raises after the engine exists: a database
\* error in acquire_advisory_lock, the missing DEVTO_API_KEY (ValueError), an
\* exception in a phase, or KeyboardInterrupt. Both except clauses return 1.
\* A phase that raises may have written part of its rows before.
Raise(p) ==
    /\ SyncStep
    /\ pc[p] \in TryStages
    /\ pc' = [pc EXCEPT ![p] = "finally_release"]
    /\ exitCode' = [exitCode EXCEPT ![p] = <<1>>]
    /\ \E w \in {0, 1} :
         writes' = [writes EXCEPT ![p] = IF pc[p] \in WritePhases THEN @ + w ELSE @]
    /\ UNCHANGED <<engine, lock_acquired, tryLock, lockOwner, releaseCalled>>

\* (mutant) the release no longer looks at lock_acquired.
ShouldReleaseAlways(p) == engine[p]

\* The guard of the finally block's release.
ShouldRelease(p) == lock_acquired[p] /\ engine[p]

\* finally: `if lock_acquired and engine: release_advisory_lock(...)`.
\* pg_advisory_unlock frees the lock when the calling session holds it.
ReleaseLock(p) ==
    /\ SyncStep
    /\ pc[p] = "finally_release"
    /\ pc' = [pc EXCEPT ![p] = "finally_dispose"]
    /\ IF ShouldRelease(p)
         THEN /\ releaseCalled' = [releaseCalled EXCEPT ![p] = TRUE]
              /\ lockOwner' = lockOwner \ {p}
         ELSE UNCHANGED <<releaseCalled, lockOwner>>
    /\ UNCHANGED <<engine, lock_acquired, tryLock, exitCode, writes>>

\* finally: release_advisory_lock does not free the lock: it raises and the
\* exception is logged ("Failed to release lock"), or its pooled connection
\* is not the session that took the lock. The lock stays with p's session.
ReleaseLockFails(p) ==
    /\ SyncStep
    /\ pc[p] = "finally_release"
    /\ ShouldRelease(p)
    /\ pc' = [pc EXCEPT ![p] = "finally_dispose"]
    /\ releaseCalled' = [releaseCalled EXCEPT ![p] = TRUE]
    /\ UNCHANGED <<engine, lock_acquired, tryLock, lockOwner, exitCode, writes>>

\* (mutant) closing the connections leaves the lock where it is.
LockAfterDisposeKept(p) == lockOwner

\* What engine.dispose() does to the advisory lock: it closes every pooled
\* connection of p, and PostgreSQL frees the session-level locks of a closed
\* session.
LockAfterDispose(p) == lockOwner \ {p}

\* finally: `if engine: await engine.dispose()`, then the function returns.
DisposeEngine(p) ==
    /\ SyncStep
    /\ pc[p] = "finally_dispose"
    /\ pc' = [pc EXCEPT ![p] = "done"]
    /\ lockOwner' = IF engine[p] THEN LockAfterDispose(p) ELSE lockOwner
    /\ UNCHANGED <<engine, lock_acquired, tryLock, exitCode, writes, releaseCalled>>

\* One step of invocation p after it has started.
Run(p) ==
    \/ ConnectOk(p)
    \/ ConnectFail(p)
    \/ AcquireLock(p)
    \/ ApiKeyOk(p)
    \/ PhaseDone(p)
    \/ Raise(p)
    \/ ReleaseLock(p)
    \/ ReleaseLockFails(p)
    \/ DisposeEngine(p)

Next ==
    \/ \E p \in Procs : Start(p)
    \/ \E p \in Procs : ConnectOk(p)
    \/ \E p \in Procs : ConnectFail(p)
    \/ \E p \in Procs : AcquireLock(p)
    \/ \E p \in Procs : ApiKeyOk(p)
    \/ \E p \in Procs : PhaseDone(p)
    \/ \E p \in Procs : Raise(p)
    \/ \E p \in Procs : ReleaseLock(p)
    \/ \E p \in Procs : ReleaseLockFails(p)
    \/ \E p \in Procs : DisposeEngine(p)

Spec == Init /\ [][Next]_vars

\* Every started invocation keeps running: the operating system schedules
\* each worker process.
FairSpec == Spec /\ \A p \in Procs : WF_vars(Run(p))

(***************************************************************************)
(* Claims about the sync worker.                                           *)
(***************************************************************************)
\* C1: of any two invocations of run_sync_pipeline at most one is inside a
\* write phase; an invocation that is in a write phase, or has written, was
\* granted the lock and (while in the phase) holds it, and an invocation that
\* was refused the lock has written nothing.
C1_SingleWriter ==
    /\ \A p, q \in Procs :
         p # q => ~(pc[p] \in WritePhases /\ pc[q] \in WritePhases)
    /\ \A p \in Procs : pc[p] \in WritePhases => lockOwner = {p}
    /\ \A p \in Procs : writes[p] > 0 => tryLock[p] = "granted"

\* C1 witness: one invocation is writing while the other, started meanwhile,
\* was refused the lock and has ended without a write.
C1_Witness ==
    \E p, q \in Procs :
        /\ p # q
        /\ pc[p] \in WritePhases /\ writes[p] > 0
        /\ tryLock[q] = "denied" /\ pc[q] = "done" /\ writes[q] = 0

\* C2: an invocation that found the lock held returns 0, writes nothing and
\* neither calls release_advisory_lock nor takes the lock away from its holder.
C2_ContentionIsNoOp ==
    \A p \in Procs :
        tryLock[p] = "denied" =>
            /\ exitCode[p] = <<0>>
            /\ writes[p] = 0
            /\ ~releaseCalled[p]
            /\ p \notin lockOwner

\* C2 witness: a refused invocation has run to its end while the holder is
\* still in a write phase and still holds the lock.
C2_Witness ==
    \E p, q \in Procs :
        /\ tryLock[p] = "denied" /\ pc[p] = "done" /\ exitCode[p] = <<0>>
        /\ pc[q] \in WritePhases /\ lockOwner = {q}

\* C3: an invocation that has ended does not hold the lock, whatever path it
\* took, and a lock that is held is eventually free again.
C3_LockFreed ==
    \A p \in Procs :
        /\ [](pc[p] = "done" => p \notin lockOwner)
        /\ (p \in lockOwner) ~> (p \notin lockOwner)

\* C3 witness: an invocation that was granted the lock ended on an error path
\* (exit code 1) after its release call, the lock is free, and the other
\* invocation has acquired it afterwards.
C3_Witness ==
    \E p, q \in Procs :
        /\ p # q
        /\ pc[p] = "done" /\ tryLock[p] = "granted" /\ exitCode[p] = <<1>>
        /\ releaseCalled[p]
        /\ lockOwner = {q} /\ tryLock[q] = "granted"

(***************************************************************************)
(* SNAPSHOT STORE                                                          *)
(* A row of article_metrics is [article_id, collected_at, views, title], a *)
(* row of follower_events [collected_at, follower_count,                   *)
(* new_followers_since_last]. is_deleted is left out: the services only    *)
(* ever write is_deleted = False.                                          *)
(***************************************************************************)
\* A step of the store or of a reader leaves the sync worker and the scorer
\* alone.
StoreStep == UNCHANGED <<syncVars, qualVars, nlpVars, dailyVars, pipeVars, themeVars, killVars, apiVars, refVars>>

\* No read operation is in progress.
Idle == call.op = None

\* What fetch_articles can return about the articles `ids`: some of them,
\* each with its view count and title.
Fetches(ids, viewSet, titleSet) ==
    UNION {[S -> [views : viewSet, title : titleSet]] : S \in SUBSET ids}

\* The articles without a row at collected_at. A fetch that repeats an
\* article already collected at that time adds nothing for it (ON CONFLICT DO
\* NOTHING), so a store is reached by the fetches of these articles alone.
NotCollectedAt(collected_at) ==
    {a \in Articles :
        ~\E r \in article_metrics : r.article_id = a /\ r.collected_at = collected_at}

\* The rows sync_articles adds: one per fetched article, unless a row with the
\* same (collected_at, article_id) exists (ON CONFLICT DO NOTHING on
\* uq_article_metrics_collected_article).
NewMetricRows(collected_at, fetched) ==
    {[article_id |-> a, collected_at |-> collected_at,
      views |-> fetched[a].views, title |-> fetched[a].title] :
        a \in {x \in DOMAIN fetched :
                 ~\E r \in article_metrics :
                     r.article_id = x /\ r.collected_at = collected_at}}

\* DevToService.sync_articles(collected_at).
SyncArticles(collected_at, fetched) ==
    /\ StoreStep
    /\ Idle
    /\ NewMetricRows(collected_at, fetched) # {}
    /\ article_metrics' = article_metrics \cup NewMetricRows(collected_at, fetched)
    /\ UNCHANGED <<follower_events, readVars>>

\* follower_count of the row with the largest collected_at, 0 without rows.
LastFollowerCount ==
    IF follower_events = {} THEN 0
    ELSE (CHOOSE r \in follower_events :
              \A s \in follower_events : s.collected_at <= r.collected_at).follower_count

\* DevToService.sync_followers(collected_at): a plain INSERT; collected_at is
\* unique, so a second event for the same collected_at raises and the
\* transaction is rolled back.
SyncFollowers(collected_at, count) ==
    /\ StoreStep
    /\ Idle
    /\ ~\E r \in follower_events : r.collected_at = collected_at
    /\ follower_events' = follower_events \cup
           {[collected_at |-> collected_at, follower_count |-> count,
             new_followers_since_last |-> count - LastFollowerCount]}
    /\ UNCHANGED <<article_metrics, readVars>>

\* The caller has taken the result of the read operation.
Return ==
    /\ StoreStep
    /\ ~Idle
    /\ call' = [op |-> None]
    /\ result' = NoRow
    /\ UNCHANGED storeVars

(***************************************************************************)
(* PROXIMITY MATCHER (app/db/connection.py)                                *)
(***************************************************************************)
Abs(x) == IF x < 0 THEN 0 - x ELSE x

\* The additional_filters the callers pass: none, or [article_id == a]; a
\* filter list is modelled by the set of article ids it asks for.
Filters == {{}} \cup {{a} : a \in Articles}

Satisfies(r, filter) == \A a \in filter : r.article_id = a

\* (mutant) BETWEEN applied to the lower end of the window only.
InWindowLowerOnly(t, target_time, tolerance_hours) ==
    target_time - tolerance_hours <= t

\* col.between(start, end) with start/end = target -/+ tolerance_hours.
InWindow(t, target_time, tolerance_hours) ==
    /\ target_time - tolerance_hours <= t
    /\ t <= target_time + tolerance_hours

\* The rows the WHERE clause keeps.
Candidates(table, target_time, tolerance_hours, filter) ==
    {r \in table : /\ InWindow(r.collected_at, target_time, tolerance_hours)
                   /\ Satisfies(r, filter)}

\* ORDER BY distance LIMIT 1: the rows that can come first. The statement has
\* no second sort key, so among equally distant rows PostgreSQL may return
\* any.
Nearest(rows, target_time) ==
    {r \in rows : \A s \in rows :
        Abs(r.collected_at - target_time) <= Abs(s.collected_at - target_time)}

\* What find_closest_snapshot can return: a row, or None when the query has
\* no row.
find_closest_snapshot(table, target_time, tolerance_hours, filter) ==
    LET rows == Candidates(table, target_time, tolerance_hours, filter)
    IN  IF rows = {} THEN {NoRow} ELSE Nearest(rows, target_time)

\* A lookup in article_metrics.
FindClosestCall(target_time, tolerance_hours, filter) ==
    /\ StoreStep
    /\ Idle
    /\ call' = [op |-> "find_closest_snapshot", target_time |-> target_time,
                tolerance_hours |-> tolerance_hours, filter |-> filter]
    /\ result' \in find_closest_snapshot(article_metrics, target_time,
                                         tolerance_hours, filter)
    /\ UNCHANGED storeVars

\* Target times of the lookups: every hour from one tick before the first
\* snapshot to one tick after the last.
Targets == (0 - TickHours)..(TickHours * (MaxTick + 1))

ProximityNext ==
    \/ Idle /\ \E t \in Times : \E f \in Fetches(Articles, {0}, {"t1"}) : SyncArticles(t, f)
    \/ Idle /\ \E t \in Targets, h \in 0..MaxToleranceHours, f \in Filters :
                   FindClosestCall(t, h, f)
    \/ Return

ProximitySpec == Init /\ [][ProximityNext]_vars

(***************************************************************************)
(* Claims about the proximity matcher.                                     *)
(***************************************************************************)
IsFindClosest == call.op = "find_closest_snapshot"

\* The rows of article_metrics inside the closed window that satisfy the
\* filter, written out from the claim.
WindowRows ==
    {r \in article_metrics :
        /\ Satisfies(r, call.filter)
        /\ call.target_time - call.tolerance_hours <= r.collected_at
        /\ r.collected_at <= call.target_time + call.tolerance_hours}

\* C4: find_closest_snapshot returns None exactly when no row satisfies the
\* filters inside [target - tolerance, target + tolerance]; otherwise it
\* returns a stored row that satisfies the filters, lies in the window and is
\* at minimal distance from the target among such rows.
C4_ClosestInWindow ==
    IsFindClosest =>
        /\ (result = NoRow) <=> (WindowRows = {})
        /\ result # NoRow =>
              /\ result \in WindowRows
              /\ \A s \in WindowRows :
                    Abs(result.collected_at - call.target_time)
                        <= Abs(s.collected_at - call.target_time)

\* C4 witness: a lookup returned a row although a nearer row of another
\* article and a row outside the window are stored.
C4_Witness ==
    /\ IsFindClosest
    /\ result # NoRow
    /\ call.filter # {}
    /\ \E s \in article_metrics :
           /\ ~Satisfies(s, call.filter)
           /\ Abs(s.collected_at - call.target_time)
                 < Abs(result.collected_at - call.target_time)
    /\ \E s \in article_metrics :
           /\ Satisfies(s, call.filter)
           /\ Abs(s.collected_at - call.target_time) > call.tolerance_hours

\* C4 witness, None case: rows satisfying the filter are stored, all outside
\* the window, and the lookup returned None.
C4_WitnessNone ==
    /\ IsFindClosest
    /\ result = NoRow
    /\ \E s \in article_metrics : Satisfies(s, call.filter)

\* C5 (as claimed): of two rows equally distant from the target the
\* earlier-collected one is returned.
C5_TieReturnsEarliest ==
    (IsFindClosest /\ result # NoRow) =>
        \A s \in WindowRows :
            Abs(s.collected_at - call.target_time)
                = Abs(result.collected_at - call.target_time)
            => result.collected_at <= s.collected_at

(***************************************************************************)
(* FOLLOWER ATTRIBUTION (Share of Voice)                                   *)
(* Two versions exist: AnalyticsService.weighted_follower_attribution      *)
(* (app/services/analytics_service.py) and weighted_follower_attribution   *)
(* (app/db/queries.py). Fractions are kept exact: share and                *)
(* attributed_followers are records [num, den] with den > 0, where the     *)
(* code computes the floating-point quotient.                              *)
(***************************************************************************)
RECURSIVE SumSeq(_)
SumSeq(q) == IF q = <<>> THEN 0 ELSE Head(q) + SumSeq(Tail(q))

\* The sequences that list every element of S once: the orders in which a
\* SELECT without ORDER BY can return the rows S.
RECURSIVE Orders(_)
Orders(S) ==
    IF S = {} THEN {<<>>}
    ELSE UNION {{<<x>> \o q : q \in Orders(S \ {x})} : x \in S}

\* The indices 1..n in the order a stable descending sort by keys gives them:
\* each index is inserted behind the indices whose key is not smaller.
RECURSIVE SortedIndices(_, _)
SortedIndices(keys, n) ==
    IF n = 0 THEN <<>>
    ELSE LET s == SortedIndices(keys, n - 1)
             pos == Cardinality({i \in 1..(n - 1) : keys[i] >= keys[n]})
         IN  SubSeq(s, 1, pos) \o <<n>> \o SubSeq(s, pos + 1, n - 1)

\* list.sort(key=..., reverse=True): descending by key, elements with equal
\* keys keep their order (the sort is stable). keys[i] is the key of q[i].
SortDesc(q, keys) ==
    LET p == SortedIndices(keys, Len(q))
    IN  [i \in 1..Len(q) |-> q[p[i]]]

\* The entries of q with a positive views_gain, in q's order.
RECURSIVE SelectGain(_)
SelectGain(q) ==
    IF q = <<>> THEN <<>>
    ELSE IF Head(q).views_gain > 0
         THEN <<Head(q)>> \o SelectGain(Tail(q))
         ELSE SelectGain(Tail(q))

\* (mutant) the loop appends every article, whatever the sign of its gain.
SelectAll(q) == q

\* The body of the loop over the articles: `if views_gain > 0: append`.
PositiveGains(q) == SelectGain(q)

\* (mutant) the denominator counts the view gain of every article of the loop.
TrafficGainOfAll(looped, kept) ==
    SumSeq([i \in DOMAIN looped |-> Abs(looped[i].views_gain)])

\* global_traffic_gain: `global_traffic_gain += views_gain` runs for the
\* appended entries only. looped: one record per article of the loop; kept:
\* the appended entries.
GlobalTrafficGain(looped, kept) ==
    SumSeq([i \in DOMAIN kept |-> kept[i].views_gain])

\* share = views_gain / global_traffic_gain; attributed_followers = share *
\* total_gain.
WithShares(q, global_traffic_gain, total_gain) ==
    [i \in DOMAIN q |->
        [e \in {"traffic_share", "attributed_followers"} \cup DOMAIN q[i] |->
            IF e = "traffic_share"
              THEN [num |-> q[i].views_gain, den |-> global_traffic_gain]
            ELSE IF e = "attributed_followers"
              THEN [num |-> q[i].views_gain * total_gain, den |-> global_traffic_gain]
            ELSE q[i][e]]]

RowsOf(a) == {r \in article_metrics : r.article_id = a}

\* A row of `rows` nearest to target_time, NoRow when there is none
\* (ORDER BY distance LIMIT 1 without a window).
NearestOrNone(rows, target_time) ==
    IF rows = {} THEN {NoRow} ELSE Nearest(rows, target_time)

----------------------------------------------------------------------------
\* AnalyticsService.weighted_follower_attribution(hours): its return value
\* for one outcome of its queries. order: the (article_id, title) pairs in
\* the order of the SELECT DISTINCT; v_start, v_end: the rows the two view
\* lookups return for each pair.
ServiceResult(start_snapshot, end_snapshot, order, v_start, v_end) ==
    IF start_snapshot = NoRow \/ end_snapshot = NoRow
      THEN [error |-> "Need at least two follower snapshots",
            total_gain |-> 0, attribution |-> <<>>]
    ELSE IF start_snapshot.collected_at = end_snapshot.collected_at
      THEN [error |-> "Need two different snapshots",
            total_gain |-> 0, attribution |-> <<>>]
    ELSE
      LET total_gain == end_snapshot.follower_count - start_snapshot.follower_count
          looped == [i \in DOMAIN order |->
                        [title |-> order[i][2],
                         views_gain |-> v_end[order[i]].views - v_start[order[i]].views]]
          attribution_data == PositiveGains(looped)
          global_traffic_gain == GlobalTrafficGain(looped, attribution_data)
          sorted == SortDesc(attribution_data,
                             [i \in DOMAIN attribution_data |->
                                 attribution_data[i].views_gain])
      IN  IF total_gain <= 0
            THEN [error |-> None, total_gain |-> total_gain, attribution |-> <<>>]
          ELSE IF global_traffic_gain = 0
            THEN [error |-> "No traffic detected in period",
                  total_gain |-> total_gain, attribution |-> <<>>]
          ELSE [error |-> None, total_gain |-> total_gain,
                global_traffic_gain |-> global_traffic_gain,
                attribution |-> WithShares(sorted, global_traffic_gain, total_gain)]

\* The rows a view lookup can return for each (article_id, title) pair.
ViewLookups(pairs, target_time) ==
    {f \in [pairs -> UNION {Nearest(RowsOf(p[1]), target_time) : p \in pairs}] :
        \A p \in pairs : f[p] \in Nearest(RowsOf(p[1]), target_time)}

\* Every return value the queries of the method allow on the current store.
ServiceAttribution(end_time, hours) ==
    LET start_time == end_time - hours
        pairs == {<<r.article_id, r.title>> : r \in article_metrics}
    IN  {ServiceResult(fs, fe, order, vs, ve) :
            fs \in NearestOrNone(follower_events, start_time),
            fe \in NearestOrNone(follower_events, end_time),
            order \in Orders(pairs),
            vs \in ViewLookups(pairs, start_time),
            ve \in ViewLookups(pairs, end_time)}

ServiceAttributionCall(end_time, hours) ==
    /\ StoreStep
    /\ Idle
    /\ call' = [op |-> "service_attribution", end_time |-> end_time, hours |-> hours]
    /\ result' \in ServiceAttribution(end_time, hours)
    /\ UNCHANGED storeVars

----------------------------------------------------------------------------
\* tolerance_hours of the lookups of queries.weighted_follower_attribution
\* (the explicit 6 of the follower lookups, the default of the view lookups).
ToleranceHours == 6

TitleRank(t) == IF t = "t1" THEN 1 ELSE 2

\* func.max(title) of an article's rows.
MaxTitle(a) ==
    CHOOSE t \in {r.title : r \in RowsOf(a)} :
        \A r \in RowsOf(a) : TitleRank(r.title) <= TitleRank(t)

\* queries.weighted_follower_attribution(conn, hours): the list it returns for
\* one outcome of its queries. order: the article ids in the order of the
\* GROUP BY query; v_start, v_end: what find_closest_snapshot returns for each.
QueriesResult(f_start, f_end, order, v_start, v_end) ==
    IF f_start = NoRow \/ f_end = NoRow THEN <<>>
    ELSE
      LET total_gain == f_end.follower_count - f_start.follower_count
          found == SelectSeq(order, LAMBDA a : v_start[a] # NoRow /\ v_end[a] # NoRow)
          looped == [i \in DOMAIN found |->
                        [article_id |-> found[i],
                         title |-> MaxTitle(found[i]),
                         views_gain |-> v_end[found[i]].views - v_start[found[i]].views]]
          attribution_data == PositiveGains(looped)
          global_traffic_gain == GlobalTrafficGain(looped, attribution_data)
          results == WithShares(attribution_data, global_traffic_gain, total_gain)
      IN  IF total_gain <= 0 THEN <<>>
          ELSE IF global_traffic_gain = 0 THEN <<>>
          ELSE SortDesc(results,
                        [i \in DOMAIN results |-> results[i].attributed_followers.num])

\* What the find_closest_snapshot lookups can return for each article.
SnapshotLookups(ids, target_time) ==
    {f \in [ids -> UNION {find_closest_snapshot(article_metrics, target_time,
                                                ToleranceHours, {a}) : a \in ids}] :
        \A a \in ids :
            f[a] \in find_closest_snapshot(article_metrics, target_time,
                                           ToleranceHours, {a})}

\* Every list the function can return on the current store.
QueriesAttribution(end_time, hours) ==
    LET start_time == end_time - hours
        ids == {r.article_id : r \in article_metrics}
    IN  {QueriesResult(fs, fe, order, vs, ve) :
            fs \in find_closest_snapshot(follower_events, start_time, ToleranceHours, {}),
            fe \in find_closest_snapshot(follower_events, end_time, ToleranceHours, {}),
            order \in Orders(ids),
            vs \in SnapshotLookups(ids, start_time),
            ve \in SnapshotLookups(ids, end_time)}

QueriesAttributionCall(end_time, hours) ==
    /\ StoreStep
    /\ Idle
    /\ call' = [op |-> "queries_attribution", end_time |-> end_time, hours |-> hours]
    /\ result' \in {[returned |-> x] : x \in QueriesAttribution(end_time, hours)}
    /\ UNCHANGED storeVars

----------------------------------------------------------------------------
\* In this part the syncs run at the two ends of an analysis period and the
\* attribution is asked for at the time of the later one.
AttrTimes == {0, TickHours}

\* The titles the API can report at a sync: "t1" is an article's title at the
\* start of the period, and by the end it may have been renamed.
TitlesAt(t) == IF t = 0 THEN {"t1"} ELSE Titles
AttrHours == {TickHours * k : k \in 1..MaxWindowTicks}

AttrNext ==
    \/ Idle /\ \E t \in AttrTimes : \E f \in Fetches(NotCollectedAt(t), 0..MaxViews, TitlesAt(t)) :
                   SyncArticles(t, f)
    \/ Idle /\ \E t \in AttrTimes, c \in 0..MaxFollowers : SyncFollowers(t, c)
    \/ Idle /\ \E h \in AttrHours : ServiceAttributionCall(TickHours, h)
    \/ Idle /\ \E h \in AttrHours : QueriesAttributionCall(TickHours, h)
    \/ Return

AttrSpec == Init /\ [][AttrNext]_vars

(***************************************************************************)
(* Claims about the follower attribution.                                  *)
(***************************************************************************)
IsService == call.op = "service_attribution"
IsQueries == call.op = "queries_attribution"
IsAttribution == IsService \/ IsQueries

\* The attribution list of the last call.
Attribution == IF IsService THEN result.attribution ELSE result.returned

\* Exact sum of a sequence of fractions [num, den].
RECURSIVE SumFractions(_)
SumFractions(q) ==
    IF q = <<>> THEN [num |-> 0, den |-> 1]
    ELSE LET rest == SumFractions(Tail(q))
         IN  [num |-> Head(q).num * rest.den + rest.num * Head(q).den,
              den |-> Head(q).den * rest.den]

\* The stored value nearest to a target time, read off the store: the
\* follower count, and the views of article a.
FollowersNear(target_time) ==
    (CHOOSE r \in follower_events : \A s \in follower_events :
        Abs(r.collected_at - target_time) <= Abs(s.collected_at - target_time)).follower_count

ViewsNear(a, target_time) ==
    (CHOOSE r \in article_metrics :
        /\ r.article_id = a
        /\ \A s \in article_metrics : s.article_id = a =>
              Abs(r.collected_at - target_time) <= Abs(s.collected_at - target_time)).views

\* totalGain of the period of the last call: end follower count minus start
\* follower count.
TotalGain == FollowersNear(call.end_time) - FollowersNear(call.end_time - call.hours)

\* View gain of article a over the period of the last call.
ViewsGain(a) == ViewsNear(a, call.end_time) - ViewsNear(a, call.end_time - call.hours)

Stored == {r.article_id : r \in article_metrics}

\* C6: a non-empty attribution list sums to totalGain.
C6_SumIsTotalGain ==
    (IsAttribution /\ Attribution # <<>>) =>
        LET total == SumFractions([i \in DOMAIN Attribution |->
                                      Attribution[i].attributed_followers])
        IN  /\ total.den > 0
            /\ total.num = TotalGain * total.den

\* C6 witness: two entries with different credit (a 2:1 split of the traffic)
\* of a follower gain of more than one.
C6_Witness ==
    /\ IsAttribution
    /\ Len(Attribution) = 2
    /\ Attribution[1].views_gain = 2 * Attribution[2].views_gain
    /\ TotalGain > 1

\* C7: every entry has 0 <= attributed_followers <= totalGain and stands for
\* an article whose views grew over the period; the denominator is the sum of
\* the entries' gains, so an article whose views fell has no entry and no part
\* in globalTrafficGain.
C7_CreditWithinBounds ==
    IsAttribution =>
        \A i \in DOMAIN Attribution :
            LET e == Attribution[i]
                f == e.attributed_followers
            IN  /\ f.den > 0
                /\ 0 <= f.num
                /\ f.num <= TotalGain * f.den
                /\ e.views_gain > 0
                /\ e.traffic_share.den =
                       SumSeq([j \in DOMAIN Attribution |-> Attribution[j].views_gain])
                /\ \E a \in Stored :
                       /\ ViewsGain(a) = e.views_gain
                       /\ \E r \in article_metrics :
                              r.article_id = a /\ r.title = e.title
                       /\ IsQueries => e.article_id = a

\* C7 witness: credit was attributed while the views of a stored article fell
\* over the period.
C7_Witness ==
    /\ IsAttribution
    /\ Attribution # <<>>
    /\ \E a \in Stored : ViewsGain(a) < 0

\* The follower lookups of the last call leave it without two distinct
\* snapshots: one of them finds nothing (for the queries version: nothing
\* within the tolerance), or both find the same row.
InsufficientData ==
    LET start_time == call.end_time - call.hours
        InReach(r, t) == IsQueries => Abs(r.collected_at - t) <= ToleranceHours
        starts == {r \in Nearest(follower_events, start_time) : InReach(r, start_time)}
        ends == {r \in Nearest(follower_events, call.end_time) : InReach(r, call.end_time)}
    IN  starts = {} \/ ends = {} \/ starts = ends

\* C8 (as claimed): with insufficient follower data the operation returns an
\* explicit insufficient-data result, never the plain empty result it returns
\* for a flat or declining follower count.
C8_InsufficientDataIsExplicit ==
    (IsAttribution /\ InsufficientData) =>
        \/ IsService /\ result.error # None
        \/ IsQueries /\ result.returned # <<>>

\* C9 (as claimed): the list is in descending order of attributed_followers,
\* entries with equal attributed_followers in ascending order of article_id.
\* (Stated for the version whose entries carry an article_id.)
C9_SortedWithTieBreak ==
    IsQueries =>
        \A i, j \in DOMAIN result.returned :
            i < j =>
                LET x == result.returned[i]
                    y == result.returned[j]
                    fx == x.attributed_followers
                    fy == y.attributed_followers
                IN  \/ fx.num * fy.den > fy.num * fx.den
                    \/ fx.num * fy.den = fy.num * fx.den /\ x.article_id < y.article_id

(***************************************************************************)
(* QUALITY SCORER                                                          *)
(* The scoring loops of AnalyticsService.get_quality_scores and            *)
(* AnalyticsService.refresh_all_stats, applied to one aggregated row       *)
(* [reading_time_minutes, avg_read_seconds, views_90d, reactions_90d,      *)
(* comments_90d]. A column value is <<v>>, SQL NULL (Python None) is <<>>. *)
(* Numbers are exact fractions [num, den] with den > 0 where the code      *)
(* computes floats; the score is the value before round().                 *)
(***************************************************************************)
QualityStep == UNCHANGED <<syncVars, storeVars, readVars, nlpVars, dailyVars, pipeVars, themeVars, killVars, apiVars, refVars>>

Null == <<>>
Optional(S) == {Null} \cup {<<v>> : v \in S}

\* Python's `x or d`: d when x is None or 0.
Or(x, d) == IF x = Null THEN d ELSE IF x[1] = 0 THEN d ELSE x[1]

\* n / d for d # 0, with the sign carried by the numerator.
Frac(n, d) == IF d < 0 THEN [num |-> 0 - n, den |-> 0 - d] ELSE [num |-> n, den |-> d]
FracLeq(a, b) == a.num * b.den <= b.num * a.den
FracMin(a, b) == IF FracLeq(a, b) THEN a ELSE b
FracAdd(a, b) == [num |-> a.num * b.den + b.num * a.den, den |-> a.den * b.den]
FracMul(a, b) == [num |-> a.num * b.num, den |-> a.den * b.den]

DefaultReadingMinutes == 5
CompletionCap == 100
EngagementCap == 20

\* (mutant) the completion is not capped.
CompletionUncapped(avg_read, length_sec) ==
    IF length_sec > 0 THEN Frac(avg_read * 100, length_sec) ELSE Frac(0, 1)

\* completion = min(100, (avg_read / length_sec) * 100) if length_sec > 0 else 0
Completion(avg_read, length_sec) ==
    IF length_sec > 0
      THEN FracMin(Frac(CompletionCap, 1), Frac(avg_read * 100, length_sec))
      ELSE Frac(0, 1)

\* engagement = ((reactions + comments) / views) * 100
Engagement(reactions, comments, views) == Frac((reactions + comments) * 100, views)

\* score = (completion * 0.7) + (min(engagement, 20) * 1.5)
Score(completion, engagement) ==
    FracAdd(FracMul(completion, Frac(7, 10)),
            FracMul(FracMin(engagement, Frac(EngagementCap, 1)), Frac(15, 10)))

\* The body of the scoring loop, the same statements in both methods.
ScoreRow(row) ==
    LET length_sec == Or(row.reading_time_minutes, DefaultReadingMinutes) * 60
        avg_read == Or(row.avg_read_seconds, 0)
        completion == Completion(avg_read, length_sec)
        views == Or(row.views_90d, 1)
        reactions == Or(row.reactions_90d, 0)
        comments == Or(row.comments_90d, 0)
        engagement == Engagement(reactions, comments, views)
    IN  [completion |-> completion,
         engagement |-> engagement,
         quality_score |-> Score(completion, engagement),
         views |-> views]

\* The aggregated rows the queries can produce from the stored columns, which
\* hold whatever the API reported (no CHECK constraint, no clamping on write).
AggregatedRows ==
    [reading_time_minutes : Optional(-1..MaxReadingMinutes),
     avg_read_seconds : Optional({AvgStepSeconds * k : k \in -1..MaxAvgSteps}),
     views_90d : Optional({ViewStep * k : k \in -1..MaxViewSteps}),
     reactions_90d : Optional(-1..MaxCount),
     comments_90d : Optional(-1..MaxCount)]

\* The min_views arguments of get_quality_scores that are tried.
MinViews == {0, ViewStep}

\* WHERE da_agg.views_90d > min_views (false for NULL).
PassesMinViews(row, min_views) ==
    row.views_90d # Null /\ row.views_90d[1] > min_views

\* AnalyticsService.get_quality_scores(min_views) for one joined row: the
\* row is scored when the WHERE clause keeps it, else it is not in the list.
GetQualityScores(row, min_views) ==
    /\ QualityStep
    /\ qin.op = None
    /\ qin' = [op |-> "get_quality_scores", row |-> row, min_views |-> min_views]
    /\ qout' = IF PassesMinViews(row, min_views) THEN ScoreRow(row) ELSE NoRow

\* AnalyticsService.refresh_all_stats for one article: the outer join keeps
\* articles without daily analytics (NULL aggregates) and nothing filters on
\* the view count.
RefreshAllStats(row) ==
    /\ QualityStep
    /\ qin.op = None
    /\ qin' = [op |-> "refresh_all_stats", row |-> row]
    /\ qout' = ScoreRow(row)

\* The caller has taken the scores.
QualityReturn ==
    /\ QualityStep
    /\ qin.op # None
    /\ qin' = [op |-> None]
    /\ qout' = NoRow

QualityNext ==
    \/ qin.op = None /\ \E row \in AggregatedRows, m \in MinViews :
                            GetQualityScores(row, m)
    \/ qin.op = None /\ \E row \in AggregatedRows : RefreshAllStats(row)
    \/ QualityReturn

QualitySpec == Init /\ [][QualityNext]_vars

(***************************************************************************)
(* Claims about the quality scorer.                                        *)
(***************************************************************************)
Scored == qin.op # None /\ qout # NoRow

\* C10 (as claimed): for all inputs, null, zero and negative ones included,
\* the quality score lies between 0 and 100.
C10_ScoreInRange ==
    Scored =>
        /\ qout.quality_score.den > 0
        /\ 0 <= qout.quality_score.num
        /\ qout.quality_score.num <= 100 * qout.quality_score.den

\* A row without a negative column.
NoNegativeInput ==
    \A c \in DOMAIN qin.row : qin.row[c] = Null \/ qin.row[c][1] >= 0

\* What the scorer does guarantee: a score is computed for every row (no
\* division by zero: views of 0 or NULL count as 1), it never exceeds 100, and
\* it is not negative when no input is.
C10_ScoreBoundedAbove ==
    Scored =>
        /\ qout.views # 0
        /\ qout.quality_score.den > 0
        /\ qout.quality_score.num <= 100 * qout.quality_score.den
        /\ NoNegativeInput => 0 <= qout.quality_score.num

\* The contribution of reactions and comments to the engagement, as the
\* scoring loop reads them (`int(x or 0)`), and the average read time
\* (`float(x or 0)`).
Interactions(row) == Or(row.reactions_90d, 0) + Or(row.comments_90d, 0)
ReadSeconds(row) == Or(row.avg_read_seconds, 0)

\* a <= b for fractions with positive denominators, by comparing the integer
\* parts and then the remainders (no product of large numbers is formed).
RECURSIVE NotAbove(_, _)
NotAbove(a, b) ==
    LET qa == a.num \div a.den
        qb == b.num \div b.den
        ra == a.num % a.den
        rb == b.num % b.den
    IN  IF qa # qb THEN qa < qb
        ELSE IF ra = 0 THEN TRUE
        ELSE IF rb = 0 THEN FALSE
        ELSE NotAbove([num |-> b.den, den |-> rb], [num |-> a.den, den |-> ra])

\* C11 (as claimed): with the other inputs fixed the score does not decrease
\* when avg_read_seconds increases, nor when reactions + comments increases
\* (so above the caps it stays constant).
C11_ScoreMonotone ==
    Scored =>
        /\ \A a \in Optional({AvgStepSeconds * k : k \in -1..MaxAvgSteps}) :
              LET row2 == [qin.row EXCEPT !.avg_read_seconds = a]
              IN  ReadSeconds(qin.row) <= ReadSeconds(row2)
                    => NotAbove(qout.quality_score, ScoreRow(row2).quality_score)
        /\ \A r, c \in Optional(-1..MaxCount) :
              LET row2 == [qin.row EXCEPT !.reactions_90d = r, !.comments_90d = c]
              IN  Interactions(qin.row) <= Interactions(row2)
                    => NotAbove(qout.quality_score, ScoreRow(row2).quality_score)

(***************************************************************************)
(* INCREMENTAL WORK QUEUE (app/services/nlp_service.py)                    *)
(* A row of comments is [comment_id, kind]: kind "text" when clean_text    *)
(* of its body is not empty, "empty" when it is, "own" when                *)
(* author_username is the analysing author's or NULL (the != of the query  *)
(* is then not true). A row of comment_insights is [comment_id, by], `by`  *)
(* the run that wrote its values.                                          *)
(***************************************************************************)
NlpStep == UNCHANGED <<syncVars, storeVars, readVars, qualVars, dailyVars, pipeVars, themeVars, killVars, apiVars, refVars>>

Kinds == {"text", "empty", "own"}

\* The `limit` arguments tried: None and 1.
Limits == {<<>>, <<1>>}

Min(a, b) == IF a <= b THEN a ELSE b

\* sync_comments stores a comment the API reports for the first time.
AddComment(kind) ==
    /\ NlpStep
    /\ Cardinality(comment_rows) < MaxComments
    /\ comment_rows' = comment_rows \cup
           {[comment_id |-> Cardinality(comment_rows) + 1, kind |-> kind]}
    /\ undisturbed' = [w \in Workers |-> FALSE]
    /\ drained' = FALSE
    /\ UNCHANGED <<comment_insights, written, npc, limit, pending, inBatch, tx,
                   processed, queried, afterDrain, lostAtCrash>>

\* (mutant) the query without `comment_insights.comment_id IS NULL`.
PendingRowsAll == {r \in comment_rows : r.kind # "own"}

\* The pending query: comments LEFT JOIN comment_insights WHERE
\* comment_insights.comment_id IS NULL AND author_username != self.
PendingRows ==
    {r \in comment_rows :
        /\ r.kind # "own"
        /\ ~\E i \in comment_insights : i.comment_id = r.comment_id}

\* What the query returns: the pending rows in some order, cut to `limit`
\* rows when a limit is given.
PendingLists(lim) ==
    {IF lim = <<>> THEN q ELSE SubSeq(q, 1, Min(lim[1], Len(q))) :
        q \in Orders(PendingRows)}

\* process_pending_comments(limit) up to the start of its first batch; with
\* nothing pending it returns the zero counts at once.
FetchPending(w, lim, list) ==
    /\ NlpStep
    /\ npc[w] = "idle"
    /\ list \in PendingLists(lim)
    /\ limit' = [limit EXCEPT ![w] = lim]
    /\ queried' = [queried EXCEPT ![w] = {list[i] : i \in DOMAIN list}]
    /\ undisturbed' = [undisturbed EXCEPT ![w] = TRUE]
    /\ afterDrain' = [afterDrain EXCEPT ![w] = drained]
    /\ npc' = [npc EXCEPT ![w] = IF list = <<>> THEN "returned" ELSE "batch"]
    /\ pending' = [pending EXCEPT ![w] = list]
    /\ inBatch' = [inBatch EXCEPT ![w] = Min(BatchSize, Len(list))]
    /\ tx' = [tx EXCEPT ![w] = {}]
    /\ processed' = [processed EXCEPT ![w] = 0]
    /\ UNCHANGED <<comment_rows, comment_insights, written, lostAtCrash, drained>>

\* _process_batch, one comment of the loop: a comment without text is
\* skipped (`if not text: continue`), any other is analysed, its insight
\* written in the open transaction and counted.
ProcessComment(w) ==
    /\ NlpStep
    /\ npc[w] = "batch"
    /\ inBatch[w] > 0
    /\ pending' = [pending EXCEPT ![w] = Tail(@)]
    /\ inBatch' = [inBatch EXCEPT ![w] = @ - 1]
    /\ IF Head(pending[w]).kind = "empty"
         THEN UNCHANGED <<tx, processed>>
         ELSE /\ tx' = [tx EXCEPT ![w] = @ \cup {Head(pending[w]).comment_id}]
              /\ processed' = [processed EXCEPT ![w] = @ + 1]
    /\ UNCHANGED <<comment_rows, comment_insights, written, npc, limit, queried,
                   undisturbed, afterDrain, lostAtCrash, drained>>

\* INSERT ... ON CONFLICT (pk_comment_insights) DO UPDATE for the comments
\* ids: a row of the same comment is replaced.
Upsert(rows, ids, w) ==
    {r \in rows : r.comment_id \notin ids}
        \cup {[comment_id |-> c, by |-> w] : c \in ids}

\* The end of `async with self.engine.begin()`: the batch is committed; then
\* the next batch starts, or the loop is over and the counts are returned.
CommitBatch(w) ==
    /\ NlpStep
    /\ npc[w] = "batch"
    /\ inBatch[w] = 0
    /\ comment_insights' = Upsert(comment_insights, tx[w], w)
    /\ written' = [c \in CommentIds |->
                      IF c \in tx[w] THEN Min(written[c] + 1, 2) ELSE written[c]]
    /\ tx' = [tx EXCEPT ![w] = {}]
    /\ inBatch' = [inBatch EXCEPT ![w] = Min(BatchSize, Len(pending[w]))]
    /\ npc' = [npc EXCEPT ![w] = IF pending[w] = <<>> THEN "returned" ELSE "batch"]
    /\ drained' = IF pending[w] = <<>> /\ limit[w] = <<>> /\ undisturbed[w]
                    THEN TRUE ELSE drained
    /\ UNCHANGED <<comment_rows, limit, pending, processed, queried, undisturbed,
                   afterDrain, lostAtCrash>>

\* The caller has taken the counts; the run's locals are gone.
ReturnCounts(w) ==
    /\ NlpStep
    /\ npc[w] = "returned"
    /\ npc' = [npc EXCEPT ![w] = "idle"]
    /\ limit' = [limit EXCEPT ![w] = <<>>]
    /\ processed' = [processed EXCEPT ![w] = 0]
    /\ queried' = [queried EXCEPT ![w] = {}]
    /\ undisturbed' = [undisturbed EXCEPT ![w] = FALSE]
    /\ afterDrain' = [afterDrain EXCEPT ![w] = FALSE]
    /\ lostAtCrash' = [lostAtCrash EXCEPT ![w] = {}]
    /\ UNCHANGED <<comment_rows, comment_insights, written, pending, inBatch, tx,
                   drained>>

\* The run dies inside a batch (the process is killed, or an analysis or a
\* statement raises): PostgreSQL rolls the open transaction back; batches
\* committed before stay.
Crash(w) ==
    /\ NlpStep
    /\ npc[w] = "batch"
    /\ npc' = [npc EXCEPT ![w] = "idle"]
    /\ lostAtCrash' = [lostAtCrash EXCEPT ![w] = tx[w]]
    /\ tx' = [tx EXCEPT ![w] = {}]
    /\ pending' = [pending EXCEPT ![w] = <<>>]
    /\ inBatch' = [inBatch EXCEPT ![w] = 0]
    /\ limit' = [limit EXCEPT ![w] = <<>>]
    /\ processed' = [processed EXCEPT ![w] = 0]
    /\ queried' = [queried EXCEPT ![w] = {}]
    /\ undisturbed' = [undisturbed EXCEPT ![w] = FALSE]
    /\ afterDrain' = [afterDrain EXCEPT ![w] = FALSE]
    /\ UNCHANGED <<comment_rows, comment_insights, written, drained>>

NlpNext ==
    \/ \E k \in Kinds : AddComment(k)
    \/ \E w \in Workers : npc[w] = "idle" /\
           \E lim \in Limits : \E list \in PendingLists(lim) : FetchPending(w, lim, list)
    \/ \E w \in Workers : ProcessComment(w)
    \/ \E w \in Workers : CommitBatch(w)
    \/ \E w \in Workers : ReturnCounts(w)
    \/ \E w \in Workers : Crash(w)

NlpSpec == Init /\ [][NlpNext]_vars

(***************************************************************************)
(* Claims about the incremental work queue.                                *)
(***************************************************************************)
HasInsight(c) == \E i \in comment_insights : i.comment_id = c

\* C12 (as claimed): a run whose query comes after a complete run without
\* limit, with no comment row added in between, finds nothing pending and
\* processes 0 comments.
C12_SecondRunFindsNothing ==
    \A w \in Workers :
        afterDrain[w] => (queried[w] = {} /\ processed[w] = 0)

\* C13 (as claimed): whatever the interleaving of the runs, a comment has at
\* most one comment_insights row and its insight is written at most once.
C13_InsightComputedOnce ==
    \A c \in CommentIds :
        /\ Cardinality({i \in comment_insights : i.comment_id = c}) <= 1
        /\ written[c] <= 1

\* C14: when a run starts, after crashes of earlier runs or not, the rows its
\* query returns have no committed insight and are comments of other
\* authors, and without a limit they are all such comments: the pending set
\* is a function of the store alone.
C14_PendingFromStore ==
    [][\A w \in Workers :
          (npc[w] = "idle" /\ npc'[w] # "idle") =>
              /\ \A r \in queried'[w] :
                    r \in comment_rows /\ r.kind # "own" /\ ~HasInsight(r.comment_id)
              /\ limit'[w] = <<>> =>
                    \A r \in comment_rows :
                        (r.kind # "own" /\ ~HasInsight(r.comment_id)) => r \in queried'[w]
      ]_vars

\* C14 witness: a run crashed after writing an insight in its open
\* transaction while another comment's insight was committed; the next run
\* of the same worker got the comment of the lost insight, and only it.
C14_Witness ==
    \E w \in Workers :
        /\ npc[w] = "batch"
        /\ limit[w] = <<>>
        /\ lostAtCrash[w] # {}
        /\ {r.comment_id : r \in queried[w]} = lostAtCrash[w]
        /\ \E r \in comment_rows : r.kind = "text" /\ HasInsight(r.comment_id)

(***************************************************************************)
(* ARTICLE METRICS INGESTION (DevToService.sync_articles), with the call   *)
(* and its return value kept in call / result.                             *)
(***************************************************************************)
\* (mutant) a plain INSERT that the unique constraint does not stop.
NewMetricRowsAlways(collected_at, fetched) ==
    {[article_id |-> a, collected_at |-> collected_at,
      views |-> fetched[a].views, title |-> fetched[a].title] : a \in DOMAIN fetched}

\* The rows the insert loop of sync_articles adds.
InsertedMetricRows(collected_at, fetched) == NewMetricRows(collected_at, fetched)

\* DevToService.sync_articles(collected_at) when the API reports `fetched`;
\* it returns len(articles), conflicts included.
SyncArticlesCall(collected_at, fetched) ==
    /\ StoreStep
    /\ Idle
    /\ article_metrics' = article_metrics \cup InsertedMetricRows(collected_at, fetched)
    /\ call' = [op |-> "sync_articles", collected_at |-> collected_at,
                fetched |-> fetched]
    /\ result' = [returned |-> Cardinality(DOMAIN fetched)]
    /\ UNCHANGED follower_events

ArticleSyncNext ==
    \/ Idle /\ \E t \in AttrTimes :
                 \E f \in Fetches(Articles, 0..MaxViews, TitlesAt(t)) :
                     SyncArticlesCall(t, f)
    \/ Return

ArticleSyncSpec == Init /\ [][ArticleSyncNext]_vars

\* C15: article_metrics never holds two rows with the same (article_id,
\* collected_at), and a stored row stays in the table as it is: no sync
\* changes or removes it, whatever values it fetches for the row's key.
C15_AppendOnlyUniqueRows ==
    /\ [](\A r, s \in article_metrics :
             (r.article_id = s.article_id /\ r.collected_at = s.collected_at) => r = s)
    /\ [][\A r \in article_metrics : r \in article_metrics']_vars

\* C15 witness: sync_articles has just run with values for an article that
\* differ from the row stored for its (article_id, collected_at).
C15_Witness ==
    /\ call.op = "sync_articles"
    /\ \E a \in DOMAIN call.fetched : \E r \in article_metrics :
           /\ r.article_id = a
           /\ r.collected_at = call.collected_at
           /\ r.views # call.fetched[a].views
           /\ r.title # call.fetched[a].title

(***************************************************************************)
(* FOLLOWER EVENT INGESTION (DevToService.sync_followers), with the call   *)
(* and its outcome kept in call / result.                                  *)
(***************************************************************************)
RecordedAt(collected_at) == \E r \in follower_events : r.collected_at = collected_at

\* DevToService.sync_followers(collected_at) when the API reports `count`
\* followers. The statement is insert(follower_events).values(...): when a
\* row with this collected_at exists the unique constraint raises
\* IntegrityError inside engine.begin(), which rolls back and re-raises.
SyncFollowersCall(collected_at, count) ==
    /\ StoreStep
    /\ Idle
    /\ call' = [op |-> "sync_followers", collected_at |-> collected_at,
                count |-> count, before |-> follower_events]
    /\ IF RecordedAt(collected_at)
       THEN /\ result' = [raised |-> TRUE]
            /\ UNCHANGED follower_events
       ELSE /\ result' = [raised |-> FALSE, count |-> count,
                          delta |-> count - LastFollowerCount]
            /\ follower_events' = follower_events \cup
                   {[collected_at |-> collected_at, follower_count |-> count,
                     new_followers_since_last |-> count - LastFollowerCount]}
    /\ UNCHANGED article_metrics

FollowerSyncNext ==
    \/ Idle /\ \E t \in Times : \E n \in 0..MaxFollowers : SyncFollowersCall(t, n)
    \/ Return

FollowerSyncSpec == Init /\ [][FollowerSyncNext]_vars

\* C16: a sync_followers call whose collected_at is already recorded leaves
\* follower_events unchanged and completes without raising.
C16_DuplicateEventIgnored ==
    (/\ call.op = "sync_followers"
     /\ \E r \in call.before : r.collected_at = call.collected_at)
        => (follower_events = call.before /\ ~result.raised)

\* The table half of C16 alone: the duplicate call does leave the table as
\* it was (the failed transaction is rolled back).
C16_DuplicateLeavesTable ==
    (/\ call.op = "sync_followers"
     /\ \E r \in call.before : r.collected_at = call.collected_at)
        => follower_events = call.before

(***************************************************************************)
(* DAILY ROLLUPS (DevToService._sync_daily_analytics). A row of            *)
(* daily_analytics is [article_id, date, page_views, collected_at]; the    *)
(* other metric columns are written and replaced together with page_views. *)
(***************************************************************************)
DailyStep == UNCHANGED <<syncVars, storeVars, qualVars, nlpVars, pipeVars, themeVars, killVars, apiVars, refVars>>

\* The historical_data dictionaries: date -> page_views total, for any part
\* of the window (the empty dictionary included).
Historicals == UNION {[S -> 0..MaxViews] : S \in SUBSET Days}

DailyRows(article_id, historical, collected_at) ==
    {[article_id |-> article_id, date |-> d, page_views |-> historical[d],
      collected_at |-> collected_at] : d \in DOMAIN historical}

SameDailyKey(r, s) == r.article_id = s.article_id /\ r.date = s.date

\* (mutant) INSERT ... ON CONFLICT DO NOTHING on the same constraint.
InsertIgnoreDaily(rows, new) ==
    rows \cup {n \in new : ~\E r \in rows : SameDailyKey(r, n)}

\* INSERT ... ON CONFLICT ON CONSTRAINT uq_daily_analytics_article_date DO
\* UPDATE SET <every metric column and collected_at> = excluded.
UpsertDaily(rows, new) ==
    {r \in rows : ~\E n \in new : SameDailyKey(r, n)} \cup new

\* _sync_daily_analytics(article_id, historical_data, collected_at) running
\* to its end: one transaction over all dates, committed on exit.
SyncDailyAnalytics(article_id, historical, collected_at) ==
    /\ DailyStep
    /\ Idle
    /\ daily_analytics' =
           UpsertDaily(daily_analytics, DailyRows(article_id, historical, collected_at))
    /\ dailyFetched' = [k \in Articles \X Days |->
                           IF k[1] = article_id /\ k[2] \in DOMAIN historical
                           THEN <<historical[k[2]]>> ELSE dailyFetched[k]]
    /\ call' = [op |-> "sync_daily", article_id |-> article_id,
                historical |-> historical, before |-> daily_analytics]
    /\ result' = [raised |-> FALSE, returned |-> Cardinality(DOMAIN historical)]

\* The same call raising inside the loop (a date string fromisoformat
\* rejects, a stats entry without 'total', a database error): engine.begin()
\* rolls back what the loop has executed and the exception leaves the call.
SyncDailyAnalyticsRaises(article_id, historical) ==
    /\ DailyStep
    /\ Idle
    /\ historical # <<>>
    /\ call' = [op |-> "sync_daily", article_id |-> article_id,
                historical |-> historical, before |-> daily_analytics]
    /\ result' = [raised |-> TRUE]
    /\ UNCHANGED dailyVars

DailySyncNext ==
    \/ Idle /\ \E a \in Articles : \E h \in Historicals : \E t \in AttrTimes :
                 SyncDailyAnalytics(a, h, t)
    \/ Idle /\ \E a \in Articles : \E h \in Historicals : SyncDailyAnalyticsRaises(a, h)
    \/ Return

DailySyncSpec == Init /\ [][DailySyncNext]_vars

\* The same rows with collected_at left out.
Metrics(rows) ==
    {[article_id |-> r.article_id, date |-> r.date, page_views |-> r.page_views] : r \in rows}

\* C17: daily_analytics holds exactly one row per (article_id, date) that a
\* completed sync has fetched and none for the other keys, the row carries
\* the values of the last completed sync of its key, and a sync of the values
\* already stored changes no column but collected_at.
C17_OneRowWithLatestValues ==
    /\ [](\A k \in Articles \X Days :
             LET rows == {r \in daily_analytics : r.article_id = k[1] /\ r.date = k[2]}
             IN  IF dailyFetched[k] = <<>> THEN rows = {}
                 ELSE /\ Cardinality(rows) = 1
                      /\ \A r \in rows : r.page_views = dailyFetched[k][1])
    /\ [][(/\ call'.op = "sync_daily"
           /\ ~result'.raised
           /\ Metrics(DailyRows(call'.article_id, call'.historical, 0))
                 \subseteq Metrics(daily_analytics))
             => Metrics(daily_analytics') = Metrics(daily_analytics)]_vars

\* C17 witness: a completed sync has replaced the values stored for a key by
\* the different values it fetched.
C17_Witness ==
    /\ call.op = "sync_daily"
    /\ ~result.raised
    /\ \E d \in DOMAIN call.historical : \E b \in call.before : \E r \in daily_analytics :
           /\ b.article_id = call.article_id /\ b.date = d
           /\ r.article_id = call.article_id /\ r.date = d
           /\ b.page_views # call.historical[d]
           /\ r.page_views = call.historical[d]
           /\ r.collected_at # b.collected_at

(***************************************************************************)
(* FULL SYNC (DevToService.sync_all and the four sub-pipelines it awaits). *)
(* A record is named by the sub-pipeline that writes it and the entity it  *)
(* belongs to: the metrics row of an article, the follower event, the      *)
(* comments of an article, the daily rows and referrers of an article.     *)
(***************************************************************************)
PipeStep == UNCHANGED <<syncVars, storeVars, readVars, qualVars, nlpVars, dailyVars, themeVars, killVars, apiVars, refVars>>

\* How the step for one entity can go:
\*   ok         the fetch answered 200 with data and the records were written
\*   empty      the fetch answered 200 with nothing to record
\*   http_error the fetch answered another status: fetch_comments returns [],
\*              fetch_historical_analytics and fetch_referrers return {},
\*              fetch_followers stops paging and returns what it has
\*   raise      the request or the statement raised
OutcomesOf(sub) ==
    IF sub = "articles" THEN {"ok", "raise"}
    ELSE {"ok", "empty", "http_error", "raise"}

\* The step wrote a record. sync_followers inserts an event whatever the
\* fetch returned; the other sub-pipelines write what the fetch returned.
Written(sub, o) == o = "ok" \/ (sub = "followers" /\ o \in {"empty", "http_error"})

\* sync_articles, sync_followers and sync_comments hold one engine.begin()
\* transaction over all their entities; sync_rich_analytics opens one per
\* article inside _sync_daily_analytics and _sync_referrers.
OneTransaction(sub) == sub # "rich"

CurrentEntity(sub) ==
    LET es == Entities(sub)
        i == CHOOSE j \in DOMAIN es :
                 /\ outcomes[<<sub, es[j]>>] = "none"
                 /\ \A h \in 1..(j - 1) : outcomes[<<sub, es[h]>>] # "none"
    IN  es[i]

LastEntity(sub) == Entities(sub)[Len(Entities(sub))]

NextStage(sub) ==
    LET i == CHOOSE j \in DOMAIN Subs : Subs[j] = sub
    IN  IF i = Len(Subs) THEN "done" ELSE Subs[i + 1]

\* The dict sync_all returns: len(articles), the follower count, the new
\* comments and the records of sync_rich_analytics. It has no other key.
Summary(o, newc) ==
    [articles |-> Len(ArticleList),
     followers |-> IF o[<<"followers", 0>>] = "ok" THEN 1 ELSE 0,
     comments |-> newc,
     rich |-> Cardinality({i \in DOMAIN ArticleList : o[<<"rich", ArticleList[i]>>] = "ok"})]

\* sync_all begins: collected_at is taken and fetch_articles() is awaited,
\* which raises on any status but 200 (raise_for_status).
StartSyncAll(fetchOk) ==
    /\ PipeStep
    /\ stage \in {"idle", "done", "raised"}
    /\ stage' = IF fetchOk THEN Subs[1] ELSE "raised"
    /\ outcomes' = [k \in EntityKeys |-> "none"]
    /\ openTx' = {}
    /\ new_comments' = 0
    /\ summary' = <<>>
    /\ UNCHANGED stored

\* One iteration of the loop of the current sub-pipeline (the whole of
\* sync_followers), with the commit that follows the last iteration and the
\* rollback and propagation that follow an exception: neither the
\* sub-pipelines nor sync_all catch anything.
ProcessEntity(o) ==
    /\ PipeStep
    /\ stage \in SubNames
    /\ o \in OutcomesOf(stage)
    /\ LET e == CurrentEntity(stage)
           key == <<stage, e>>
           last == e = LastEntity(stage)
           nowOpen == IF Written(stage, o) THEN openTx \cup {key} ELSE openTx
           commit == last \/ ~OneTransaction(stage)
           newc == IF stage = "comments" /\ o = "ok" /\ key \notin (stored \cup openTx)
                   THEN new_comments + 1 ELSE new_comments
       IN  /\ outcomes' = [outcomes EXCEPT ![key] = o]
           /\ IF o = "raise"
              THEN /\ stage' = "raised"
                   /\ openTx' = {}
                   /\ UNCHANGED <<stored, new_comments, summary>>
              ELSE /\ stage' = IF last THEN NextStage(stage) ELSE stage
                   /\ stored' = IF commit THEN stored \cup nowOpen ELSE stored
                   /\ openTx' = IF commit THEN {} ELSE nowOpen
                   /\ new_comments' = newc
                   /\ summary' = IF last /\ NextStage(stage) = "done"
                                 THEN <<Summary(outcomes', newc)>> ELSE <<>>

SyncAllNext ==
    \/ \E fetchOk \in BOOLEAN : StartSyncAll(fetchOk)
    \/ \E o \in {"ok", "empty", "http_error", "raise"} : ProcessEntity(o)

SyncAllSpec == Init /\ [][SyncAllNext]_vars

Raised(sub) == \E i \in DOMAIN Entities(sub) : outcomes[<<sub, Entities(sub)[i]>>] = "raise"

Completed(sub) ==
    \A i \in DOMAIN Entities(sub) : outcomes[<<sub, Entities(sub)[i]>>] \notin {"none", "raise"}

\* C18: when a sub-pipeline of a full sync has failed, every other
\* sub-pipeline of that sync has run to completion by the time the sync ends.
C18_SiblingsStillRun ==
    \A sub \in SubNames :
        (stage = "raised" /\ Raised(sub))
            => \A other \in SubNames \ {sub} : Completed(other)

\* C19: when a sub-pipeline has failed part-way, every record it wrote for
\* the entities before the failing one is in the store.
C19_EarlierRecordsKept ==
    stage = "raised"
        => \A k \in EntityKeys : Written(k[1], outcomes[k]) => k \in stored

\* The part of C19 that the code keeps: the rich analytics of the articles
\* before the failing one stay committed.
C19_RichRecordsKept ==
    stage = "raised"
        => \A k \in EntityKeys :
               (k[1] = "rich" /\ Written(k[1], outcomes[k])) => k \in stored

\* The summaries of the runs in which every fetch succeeded, for any store
\* the run may start from.
SuccessSummaries ==
    {Summary(o, n) :
        o \in {f \in [EntityKeys -> {"ok", "empty"}] :
                  \A k \in EntityKeys : f[k] \in OutcomesOf(k[1])},
        n \in 0..Len(ArticleList)}

\* C20: a run in which the fetch of some entity failed goes on to the end and
\* returns a summary that no run without a failed fetch returns.
C20_FailureShowsInSummary ==
    (stage = "done" /\ \E k \in EntityKeys : outcomes[k] = "http_error")
        => summary[1] \notin SuccessSummaries

(***************************************************************************)
(* THEME CLASSIFICATION (ThemeService.classify_article). A row of          *)
(* article_theme_mapping is [article_id, theme_id, matched_keywords].      *)
(***************************************************************************)
ThemeStep == UNCHANGED <<syncVars, storeVars, readVars, qualVars, nlpVars, dailyVars, pipeVars, killVars, apiVars, refVars>>

\* The rows of author_themes the classification reads: theme -> keywords.
AuthorThemes ==
    [t \in DOMAIN DEFAULT_THEMES \cup (IF free_created THEN {"free"} ELSE {}) |->
        IF t = "free" THEN {} ELSE DEFAULT_THEMES[t]]

\* theme_scores[theme]['matched_keywords'] for the searchable text.
Matched(theme, text) == AuthorThemes[theme] \cap text

\* key (match_count, confidence_score) of theme t is not below that of u;
\* confidence_score is match_count / len(keywords), 0 without keywords.
KeyNotBelow(t, u, text) ==
    LET mt == Cardinality(Matched(t, text))
        mu == Cardinality(Matched(u, text))
        lt == Cardinality(AuthorThemes[t])
        lu == Cardinality(AuthorThemes[u])
    IN  \/ mt > mu
        \/ mt = mu /\ mt * lu >= mu * lt

\* What best_theme_id can be: Free Exploration when no theme matches, else a
\* theme with the largest key (max() returns the first of equal keys, in the
\* order the themes query happened to return them).
BestThemes(text) ==
    IF \A t \in DOMAIN AuthorThemes : Matched(t, text) = {}
    THEN {"free"}
    ELSE {t \in DOMAIN AuthorThemes :
             \A u \in DOMAIN AuthorThemes : KeyNotBelow(t, u, text)}

\* A later sync stores a snapshot of the article with another title or
\* tag_list, which becomes its latest metadata.
RetitleArticle(a, text) ==
    /\ ThemeStep
    /\ text # latest_text[a]
    /\ latest_text' = [latest_text EXCEPT ![a] = text]
    /\ UNCHANGED <<free_created, article_theme_mapping>>

\* classify_article(article_id): INSERT ... ON CONFLICT ON CONSTRAINT
\* uq_article_theme_article_theme (article_id, theme_id) DO UPDATE.
classify_article(a, best) ==
    /\ ThemeStep
    /\ best \in BestThemes(latest_text[a])
    /\ free_created' = (free_created \/ best = "free")
    /\ article_theme_mapping' =
           {r \in article_theme_mapping : ~(r.article_id = a /\ r.theme_id = best)}
           \cup {[article_id |-> a, theme_id |-> best,
                  matched_keywords |->
                      IF best = "free" THEN {} ELSE Matched(best, latest_text[a])]}
    /\ UNCHANGED latest_text

ThemeNext ==
    \/ \E a \in Articles : \E text \in SUBSET Words : RetitleArticle(a, text)
    \/ \E a \in Articles : \E best \in DOMAIN DEFAULT_THEMES \cup {"free"} :
           classify_article(a, best)

ThemeSpec == Init /\ [][ThemeNext]_vars

\* C21: an article has at most one row in article_theme_mapping, whatever
\* classifications it went through (a classified article has exactly one).
C21_OneThemePerArticle ==
    \A a \in Articles :
        Cardinality({r \in article_theme_mapping : r.article_id = a}) <= 1

(***************************************************************************)
(* THE SYNC WORKER KILLED (SIGKILL, out-of-memory kill, power loss of the  *)
(* worker's host): no except or finally clause runs. Phases 1 and 2 write  *)
(* article_metrics and daily_analytics here, so that the store a kill      *)
(* leaves can be looked at.                                                *)
(***************************************************************************)
KillStep == UNCHANGED <<follower_events, readVars, qualVars, nlpVars, pipeVars, themeVars, apiVars, refVars>>

\* The invocations collect within the same hour (a retried cron run); what
\* the API reports in phase 1, and the dates it reports in phase 2.
WorkerTime == TickHours
WorkerFetch(v) == [a \in Articles |-> [views |-> v, title |-> "t1"]]
WorkerHistorical == [d \in Days |-> MaxViews]

\* daily_analytics after the per-article transactions of sync_rich_analytics
\* for the articles in `got` have committed.
DailyAfter(got, collected_at) ==
    UpsertDaily(daily_analytics,
                UNION {DailyRows(a, WorkerHistorical, collected_at) : a \in got})

FetchedAfter(got) ==
    [k \in Articles \X Days |-> IF k[1] \in got THEN <<MaxViews>> ELSE dailyFetched[k]]

\* Phase 1 runs to its end: sync_articles() commits its one transaction.
WorkerPhase1(p, collected_at, v) ==
    /\ KillStep
    /\ pc[p] = "phase1"
    /\ article_metrics' = article_metrics \cup InsertedMetricRows(collected_at, WorkerFetch(v))
    /\ pc' = [pc EXCEPT ![p] = "phase2"]
    /\ writes' = [writes EXCEPT ![p] = @ + 1]
    /\ UNCHANGED <<engine, lock_acquired, tryLock, lockOwner, exitCode, releaseCalled,
                   dailyVars, killVars>>

\* Phase 2 runs to its end: sync_rich_analytics() has committed the daily
\* rows of every article whose historical fetch returned data.
WorkerPhase2(p, collected_at, got) ==
    /\ KillStep
    /\ pc[p] = "phase2"
    /\ daily_analytics' = DailyAfter(got, collected_at)
    /\ dailyFetched' = FetchedAfter(got)
    /\ pc' = [pc EXCEPT ![p] = "phase3"]
    /\ writes' = [writes EXCEPT ![p] = @ + 1]
    /\ UNCHANGED <<engine, lock_acquired, tryLock, lockOwner, exitCode, releaseCalled,
                   article_metrics, killVars>>

\* The process of invocation p is killed. In phase 1 the open transaction of
\* sync_articles is rolled back by the server; in phase 2 the transactions of
\* the articles already processed (`got`, a prefix of the list) stay
\* committed. The sessions of p stay open at the server until it notices.
Kill(p, collected_at, got) ==
    /\ KillStep
    /\ kills < MaxKills
    /\ pc[p] \notin {"idle", "done", "killed"}
    /\ got # {} => pc[p] = "phase2"
    /\ daily_analytics' = DailyAfter(got, collected_at)
    /\ dailyFetched' = FetchedAfter(got)
    /\ pc' = [pc EXCEPT ![p] = "killed"]
    /\ kills' = kills + 1
    /\ doneAtKill' = {q \in Procs : pc[q] = "done"}
    /\ UNCHANGED <<engine, lock_acquired, tryLock, lockOwner, exitCode, writes,
                   releaseCalled, article_metrics>>

\* (mutant) the lock outlives the session that took it.
LockAfterKillKept(p) == lockOwner

\* PostgreSQL frees the session-level advisory locks of a session that ends.
LockAfterKill(p) == lockOwner \ {p}

\* The server notices that the connections of the killed process are closed
\* (the operating system closes its sockets) and ends their sessions.
SessionsClosed(p) ==
    /\ KillStep
    /\ pc[p] = "killed"
    /\ pc' = [pc EXCEPT ![p] = "idle"]
    /\ lockOwner' = LockAfterKill(p)
    /\ UNCHANGED <<engine, lock_acquired, tryLock, exitCode, writes, releaseCalled,
                   article_metrics, dailyVars, killVars>>

KillNext ==
    \/ \E p \in Procs : Start(p)
    \/ \E p \in Procs : ConnectOk(p)
    \/ \E p \in Procs : ConnectFail(p)
    \/ \E p \in Procs : AcquireLock(p)
    \/ \E p \in Procs : ApiKeyOk(p)
    \/ \E p \in Procs : \E v \in {0, MaxViews} : WorkerPhase1(p, WorkerTime, v)
    \/ \E p \in Procs : \E got \in SUBSET Articles : WorkerPhase2(p, WorkerTime, got)
    \/ \E p \in Procs : pc[p] \in {"phase3", "phase4"} /\ PhaseDone(p)
    \/ \E p \in Procs : Raise(p)
    \/ \E p \in Procs : ReleaseLock(p)
    \/ \E p \in Procs : ReleaseLockFails(p)
    \/ \E p \in Procs : DisposeEngine(p)
    \/ \E p \in Procs : \E got \in {{}, {1}} : Kill(p, WorkerTime, got)
    \/ \E p \in Procs : SessionsClosed(p)

\* Every started invocation keeps running unless it is killed, and the
\* server ends the sessions of a killed process.
KillSpec ==
    /\ Init
    /\ [][KillNext]_vars
    /\ \A p \in Procs : WF_vars(Run(p) \/ WorkerPhase1(p, WorkerTime, 0) \/ WorkerPhase2(p, WorkerTime, {}))
    /\ \A p \in Procs : WF_vars(SessionsClosed(p))

\* The uniqueness constraints of the snapshot store.
StoreUnique ==
    /\ \A r, s \in article_metrics :
           (r.article_id = s.article_id /\ r.collected_at = s.collected_at) => r = s
    /\ \A r, s \in daily_analytics : SameDailyKey(r, s) => r = s
    /\ \A r, s \in follower_events : r.collected_at = s.collected_at => r = s
    /\ \A r, s \in comment_rows : r.comment_id = s.comment_id => r = s

\* C22: whenever and wherever an invocation is killed, the store keeps its
\* uniqueness constraints, the lock is held only by invocations that are
\* running or whose sessions the server has not ended yet, the lock of a
\* killed invocation is freed, and an invocation that finds the lock free is
\* granted it.
C22_KillLeavesStoreAndLockSound ==
    /\ []StoreUnique
    /\ [](\A p \in lockOwner : pc[p] \notin {"idle", "done"})
    /\ \A p \in Procs : (pc[p] = "killed") ~> (p \notin lockOwner)
    /\ [][\A q \in Procs :
              (tryLock[q] # "denied" /\ tryLock'[q] = "denied") => lockOwner \ {q} # {}]_vars

\* C22 witness: an invocation was killed, and an invocation that had not
\* returned by then has acquired the lock and completed all four phases,
\* with rows of both phases in the store.
C22_Witness ==
    /\ kills > 0
    /\ \E q \in Procs \ doneAtKill :
           /\ pc[q] = "done"
           /\ tryLock[q] = "granted"
           /\ exitCode[q] = <<0>>
           /\ writes[q] = 4
    /\ article_metrics # {}
    /\ daily_analytics # {}

(***************************************************************************)
(* FOLLOWER ATTRIBUTION OVER A LONG PERIOD: the period may begin more than *)
(* ToleranceHours before the first stored snapshot.                        *)
(***************************************************************************)
LongHours == {TickHours * k : k \in 1..(MaxWindowTicks + 1)}

LongPeriodNext ==
    \/ Idle /\ \E t \in AttrTimes : \E f \in Fetches(NotCollectedAt(t), 0..MaxViews, {"t1"}) :
                   SyncArticles(t, f)
    \/ Idle /\ \E t \in AttrTimes, c \in 0..MaxFollowers : SyncFollowers(t, c)
    \/ Idle /\ \E h \in LongHours : ServiceAttributionCall(TickHours, h)
    \/ Idle /\ \E h \in LongHours : QueriesAttributionCall(TickHours, h)
    \/ Return

LongPeriodSpec == Init /\ [][LongPeriodNext]_vars

\* The rows within ToleranceHours of a target time.
WithinTolerance(rows, target_time) ==
    {r \in rows : Abs(r.collected_at - target_time) <= ToleranceHours}

\* The last call had follower snapshots within the tolerance of both ends of
\* its period, and every entry of its list is the view gain of an article
\* between two snapshots within the tolerance of the two ends.
SnapshotsInTolerance ==
    LET start_time == call.end_time - call.hours
    IN  /\ WithinTolerance(follower_events, start_time) # {}
        /\ WithinTolerance(follower_events, call.end_time) # {}
        /\ \A i \in DOMAIN Attribution : \E a \in Stored :
               \E rs \in WithinTolerance(RowsOf(a), start_time) :
                   \E re \in WithinTolerance(RowsOf(a), call.end_time) :
                       re.views - rs.views = Attribution[i].views_gain

\* C23: an attribution that credits articles used only follower and view
\* snapshots within the tolerance of startTime and endTime; a snapshot
\* farther away counts as missing.
C23_SnapshotsWithinTolerance ==
    (IsAttribution /\ Attribution # <<>>) => SnapshotsInTolerance

\* The part of C23 that holds: the version in app/db/queries.py, which looks
\* snapshots up with find_closest_snapshot.
C23_QueriesWithinTolerance ==
    (IsQueries /\ Attribution # <<>>) => SnapshotsInTolerance

(***************************************************************************)
(* THE API'S BACKGROUND SYNC (trigger_sync / sync_background) next to the  *)
(* cron worker. The task calls DevToService directly.                      *)
(***************************************************************************)
ApiStep == UNCHANGED <<syncVars, follower_events, readVars, qualVars, nlpVars, pipeVars,
                       themeVars, killVars, refVars>>

\* The session of the API's engine, as a possible owner of the lock.
ApiProc == NumProcs + 1

\* POST /api/sync: the task is scheduled and, with DEVTO_API_KEY set, builds
\* a DevToService on the API's engine and awaits the sync of its mode. No
\* statement of it touches pg_try_advisory_lock.
ApiSyncStart(mode) ==
    /\ ApiStep
    /\ apiStage = "idle"
    /\ apiStage' = mode
    /\ UNCHANGED <<article_metrics, dailyVars>>

\* The sync of the task commits: sync_articles (modes snapshot and full, the
\* first sub-pipeline of sync_all) or sync_rich_analytics (mode rich).
ApiSyncDone(collected_at, v, got) ==
    /\ ApiStep
    /\ apiStage # "idle"
    /\ apiStage' = "idle"
    /\ IF apiStage = "rich"
       THEN /\ daily_analytics' = DailyAfter(got, collected_at)
            /\ dailyFetched' = FetchedAfter(got)
            /\ UNCHANGED article_metrics
       ELSE /\ article_metrics' =
                   article_metrics \cup InsertedMetricRows(collected_at, WorkerFetch(v))
            /\ UNCHANGED dailyVars

ApiSyncNext ==
    \/ Next
    \/ \E mode \in {"snapshot", "full", "rich"} : ApiSyncStart(mode)
    \/ \E v \in {0, MaxViews} : \E got \in SUBSET Articles : ApiSyncDone(WorkerTime, v, got)

ApiSyncSpec == Init /\ [][ApiSyncNext]_vars

C24_WorkerWritesHoldLock ==
    \A p \in Procs : pc[p] \in WritePhases => p \in lockOwner

(***************************************************************************)
(* One entry per article in the attribution (checked on AttrSpec, where an *)
(* article can be renamed between its two snapshots).                      *)
(***************************************************************************)
\* Sum of the view gains of the articles in S over the period of the last call.
RECURSIVE SumOfGains(_)
SumOfGains(S) ==
    IF S = {} THEN 0
    ELSE LET a == CHOOSE x \in S : TRUE
         IN  ViewsGain(a) + SumOfGains(S \ {a})

\* C25: a non-empty attribution has one entry for each article whose views
\* grew and no other, and globalTrafficGain (the denominator of the traffic
\* shares) is the sum of these articles' gains, each counted once.
C25_OneEntryPerArticle ==
    (IsAttribution /\ Attribution # <<>>) =>
        LET gaining == {a \in Stored : ViewsGain(a) > 0}
        IN  /\ Len(Attribution) = Cardinality(gaining)
            /\ \A i \in DOMAIN Attribution :
                   Attribution[i].traffic_share.den = SumOfGains(gaining)
            /\ IsQueries =>
                   \A i, j \in DOMAIN Attribution :
                       Attribution[i].article_id = Attribution[j].article_id => i = j

\* The part of C25 that holds: the version in app/db/queries.py, whose
\* article query groups by article_id.
C25_QueriesOneEntryPerArticle ==
    IsQueries => C25_OneEntryPerArticle

(***************************************************************************)
(* TRAFFIC SOURCES (DevToService._sync_referrers). A row of referrers is   *)
(* [article_id, domain, count, collected_at].                              *)
(***************************************************************************)
ReferrerStep == UNCHANGED <<syncVars, storeVars, qualVars, nlpVars, dailyVars, pipeVars,
                            themeVars, killVars, apiVars>>

Domains == {"d1"}

\* referrer_data['domains'], as domain -> count, for any part of the domains.
ReferrerData == UNION {[S -> 0..MaxCount] : S \in SUBSET Domains}

\* INSERT ... ON CONFLICT ON CONSTRAINT uq_referrers_article_domain_time
\* (article_id, domain, collected_at) DO NOTHING, for every reported domain.
SyncReferrers(article_id, data, collected_at) ==
    /\ ReferrerStep
    /\ Idle
    /\ referrers' = referrers \cup
           {[article_id |-> article_id, domain |-> d, count |-> data[d],
             collected_at |-> collected_at] :
               d \in {x \in DOMAIN data :
                        ~\E r \in referrers : /\ r.article_id = article_id
                                              /\ r.domain = x
                                              /\ r.collected_at = collected_at}}
    /\ call' = [op |-> "sync_referrers", article_id |-> article_id, data |-> data,
                collected_at |-> collected_at]
    /\ result' = [returned |-> Cardinality(DOMAIN data)]

ReferrerNext ==
    \/ Idle /\ \E a \in Articles : \E data \in ReferrerData : \E t \in AttrTimes :
                 SyncReferrers(a, data, t)
    \/ Return

ReferrerSpec == Init /\ [][ReferrerNext]_vars

\* C26: after a referrer sync the store holds, for each domain the sync
\* reported for the article, one row, and that row carries the reported count.
C26_ReferrersReplaced ==
    call.op = "sync_referrers" =>
        \A d \in DOMAIN call.data :
            LET rows == {r \in referrers : r.article_id = call.article_id /\ r.domain = d}
            IN  /\ Cardinality(rows) = 1
                /\ \A r \in rows : r.count = call.data[d]

\* What the code keeps instead: one row per (article_id, domain,
\* collected_at), never changed once written.
C26_ReferrersAreTimeSeries ==
    /\ [](\A r, s \in referrers :
             (r.article_id = s.article_id /\ r.domain = s.domain
                 /\ r.collected_at = s.collected_at) => r = s)
    /\ [][\A r \in referrers : r \in referrers']_vars

(***************************************************************************)
(* QUALITY SCORER OF THE QUERY LAYER (app/db/queries.py)                   *)
(* calculate_quality_scores applied to one aggregated row, next to the two *)
(* scoring loops of AnalyticsService. For an article with one              *)
(* daily_analytics row the aggregates of the three queries are the same    *)
(* values (avg, max and sum of one value), so the same row is the input    *)
(* of all three.                                                           *)
(***************************************************************************)
QueriesDefaultReadingMinutes == 7

\* The loop body of calculate_quality_scores: `reactions_90d + comments_90d`
\* is formed without a None guard and raises TypeError when one is NULL.
QueriesScoreRow(row) ==
    LET length_seconds == Or(row.reading_time_minutes, QueriesDefaultReadingMinutes) * 60
        avg_read == Or(row.avg_read_seconds, 0)
        views == Or(row.views_90d, 1)
        completion == Completion(avg_read, length_seconds)
    IN  IF row.reactions_90d = Null \/ row.comments_90d = Null
          THEN [raised |-> TRUE]
          ELSE LET engagement == Engagement(row.reactions_90d[1], row.comments_90d[1], views)
               IN  [raised |-> FALSE,
                    completion |-> completion,
                    engagement |-> engagement,
                    quality_score |-> Score(completion, engagement),
                    views |-> views]

\* queries.calculate_quality_scores(conn, min_views) for one joined row:
\* WHERE page_views > 0 and HAVING max(page_views) > min_views keep the row
\* or drop it from the list.
calculate_quality_scores(row, min_views) ==
    /\ QualityStep
    /\ qin.op = None
    /\ qin' = [op |-> "calculate_quality_scores", row |-> row, min_views |-> min_views]
    /\ qout' = IF PassesMinViews(row, min_views) /\ row.views_90d[1] > 0
                 THEN QueriesScoreRow(row)
                 ELSE NoRow

QueriesQualityNext ==
    \/ qin.op = None /\ \E row \in AggregatedRows, m \in MinViews :
                            calculate_quality_scores(row, m)
    \/ qin.op = None /\ \E row \in AggregatedRows, m \in MinViews :
                            GetQualityScores(row, m)
    \/ qin.op = None /\ \E row \in AggregatedRows : RefreshAllStats(row)
    \/ QualityReturn

QueriesQualitySpec == Init /\ [][QueriesQualityNext]_vars

\* Equal fractions (positive denominators).
FracEq(a, b) == NotAbove(a, b) /\ NotAbove(b, a)

\* The three values of a scored row agree with those of `other`.
SameScores(x, other) ==
    /\ FracEq(x.completion, other.completion)
    /\ FracEq(x.engagement, other.engagement)
    /\ FracEq(x.quality_score, other.quality_score)

\* C27 (as claimed): for the same article inputs the query-layer scorer and
\* the two service scorers compute the same completion, engagement and
\* quality score: whenever one of them has scored a row, the others give
\* the same three values for that row.
C27_ScorersAgree ==
    qin.op # None /\ qout # NoRow =>
        LET q == QueriesScoreRow(qin.row)
        IN  /\ ~q.raised
            /\ SameScores(q, ScoreRow(qin.row))
            /\ qin.op = "calculate_quality_scores" => ~qout.raised /\ SameScores(qout, ScoreRow(qin.row))
            /\ qin.op # "calculate_quality_scores" => SameScores(qout, q)

\* What does hold: the two service loops are the same statements, and the
\* query-layer scorer agrees with them on every row whose
\* reading_time_minutes is set (not NULL, not 0) and whose reactions_90d and
\* comments_90d are not NULL.
C27_ScorersAgreeOnFullRows ==
    qin.op # None /\ qout # NoRow =>
        /\ qin.op \in {"get_quality_scores", "refresh_all_stats"} => qout = ScoreRow(qin.row)
        /\ ( /\ qin.row.reading_time_minutes # Null
             /\ qin.row.reading_time_minutes # <<0>>
             /\ qin.row.reactions_90d # Null
             /\ qin.row.comments_90d # Null )
            => LET q == QueriesScoreRow(qin.row)
               IN  ~q.raised /\ SameScores(q, ScoreRow(qin.row))

(***************************************************************************)
(* Claims about the chain of follower deltas (follower_events under        *)
(* FollowerSyncSpec: sync_followers called with any collected_at, which is *)
(* a parameter of the method and is otherwise read from the clock before   *)
(* the follower list is fetched, so calls can reach the insert in another  *)
(* order than that of their collected_at).                                 *)
(***************************************************************************)
\* follower_count of the event with the next-smaller collected_at, 0 for
\* the earliest event.
PreviousCount(e, events) ==
    LET earlier == {r \in events : r.collected_at < e.collected_at}
    IN  IF earlier = {} THEN 0
        ELSE (CHOOSE r \in earlier :
                  \A o \in earlier : o.collected_at <= r.collected_at).follower_count

RECURSIVE SumOfDeltas(_)
SumOfDeltas(events) ==
    IF events = {} THEN 0
    ELSE LET e == CHOOSE r \in events : TRUE
         IN  e.new_followers_since_last + SumOfDeltas(events \ {e})

\* C28 (as claimed): in every state of follower_events each event's
\* new_followers_since_last is its follower_count minus the follower_count
\* of the event with the next-smaller collected_at (0 for the earliest), and
\* the deltas sum to the latest follower_count.
C28_DeltasChain ==
    /\ \A e \in follower_events :
          e.new_followers_since_last = e.follower_count - PreviousCount(e, follower_events)
    /\ SumOfDeltas(follower_events) = LastFollowerCount

\* What does hold: the delta of the event a call inserts is its count minus
\* the follower_count of the latest event stored when the call ran, which is
\* the next-smaller one when the call's collected_at is the largest so far.
C28_DeltaAgainstLatestStored ==
    (call.op = "sync_followers" /\ ~result.raised) =>
        \E e \in follower_events \ call.before :
            /\ e.collected_at = call.collected_at
            /\ result.delta = e.new_followers_since_last
            /\ (\A r \in call.before : r.collected_at < e.collected_at)
                  => e.new_followers_since_last
                        = e.follower_count - PreviousCount(e, follower_events)

(***************************************************************************)
(* FOLLOWER PAGINATION (DevToService.fetch_followers feeding               *)
(* sync_followers). The account has `total` followers, served PerPage to a *)
(* page; the request for page `failed_page` is answered with a status      *)
(* other than 200 (0: every request is answered with 200).                 *)
(***************************************************************************)
PerPage == 1

\* The pages that can fail: any request the loop can make.
FailedPages == 0..(MaxFollowers + 1)

\* The `while True` loop from `page` on with `got` followers collected:
\* a non-200 response and an empty page both `break`, and what was
\* collected is returned.
RECURSIVE FetchPages(_, _, _, _)
FetchPages(total, failed_page, page, got) ==
    LET data == IF total - got < PerPage THEN total - got ELSE PerPage
    IN  IF page = failed_page THEN got
        ELSE IF data = 0 THEN got
        ELSE FetchPages(total, failed_page, page + 1, got + data)

\* len(await self.fetch_followers())
fetch_followers(total, failed_page) == FetchPages(total, failed_page, 1, 0)

\* sync_followers(collected_at) against that account: the event is written
\* with count = len(followers) as in SyncFollowersCall.
SyncFollowersPaged(collected_at, total, failed_page) ==
    LET count == fetch_followers(total, failed_page)
    IN  /\ StoreStep
        /\ Idle
        /\ call' = [op |-> "sync_followers", collected_at |-> collected_at,
                    total |-> total, failed_page |-> failed_page,
                    count |-> count, before |-> follower_events]
        /\ IF RecordedAt(collected_at)
           THEN /\ result' = [raised |-> TRUE]
                /\ UNCHANGED follower_events
           ELSE /\ result' = [raised |-> FALSE, count |-> count,
                              delta |-> count - LastFollowerCount]
                /\ follower_events' = follower_events \cup
                       {[collected_at |-> collected_at, follower_count |-> count,
                         new_followers_since_last |-> count - LastFollowerCount]}
        /\ UNCHANGED article_metrics

FollowerPagesNext ==
    \/ Idle /\ \E t \in Times : \E n \in 0..MaxFollowers : \E f \in FailedPages :
                  SyncFollowersPaged(t, n, f)
    \/ Return

FollowerPagesSpec == Init /\ [][FollowerPagesNext]_vars

\* The failed request was for a page that still had followers on it.
FailedPartWay ==
    /\ call.failed_page # 0
    /\ (call.failed_page - 1) * PerPage < call.total

\* C29 (as claimed): when a page request fails part-way through the
\* follower list, sync_followers writes no event (none with the partial
\* count): follower_events is as it was before the call.
C29_NoEventOnFailedPage ==
    (call.op = "sync_followers" /\ FailedPartWay) => follower_events = call.before

\* What does hold: when every request was answered with 200 the event that
\* is written carries the full count.
C29_FullCountWhenAllPagesFetched ==
    (call.op = "sync_followers" /\ call.failed_page = 0 /\ ~result.raised) =>
        \E e \in follower_events \ call.before :
            e.collected_at = call.collected_at /\ e.follower_count = call.total

(***************************************************************************)
(* PERIOD OVERVIEW (AnalyticsService.get_overview) over the snapshot       *)
(* store. Time is in hours: `now` is the clock reading of the call and     *)
(* `period` the length of `days` days. Of the three summed columns views   *)
(* is modelled; reactions and comments go through the same statements.     *)
(***************************************************************************)
\* The period lengths tried.
Periods == {TickHours, 2 * TickHours}

\* WHERE collected_at BETWEEN lo AND hi (both ends included).
RowsBetween(lo, hi) ==
    {r \in article_metrics : lo <= r.collected_at /\ r.collected_at <= hi}

RECURSIVE SumOfViews(_)
SumOfViews(rows) ==
    IF rows = {} THEN 0
    ELSE LET r == CHOOSE x \in rows : TRUE
         IN  r.views + SumOfViews(rows \ {r})

\* func.sum(am.c.views): NULL over no rows.
TotalViews(rows) == IF rows = {} THEN Null ELSE <<SumOfViews(rows)>>

\* Python truthiness of a total: None and 0 are false.
Truthy(x) == x # Null /\ x # <<0>>

\* get_overview(days) called at `now`.
\*   views_delta = current['total_views'] - previous['total_views']
\*                     if previous['total_views'] else 0
\* The subtraction is evaluated when the previous total is truthy, and
\* raises TypeError when the current total is None.
get_overview(now, period) ==
    LET current_start == now - period
        previous_start == current_start - period
        current == TotalViews(RowsBetween(current_start, now))
        previous == TotalViews(RowsBetween(previous_start, current_start))
    IN  /\ StoreStep
        /\ Idle
        /\ call' = [op |-> "get_overview", now |-> now, period |-> period]
        /\ result' =
             IF Truthy(previous) /\ current = Null
               THEN [raised |-> TRUE]
               ELSE [raised |-> FALSE,
                     current |-> Or(current, 0),
                     previous |-> Or(previous, 0),
                     delta |-> IF Truthy(previous) THEN current[1] - previous[1] ELSE 0]
        /\ UNCHANGED storeVars

OverviewNext ==
    \/ Idle /\ \E t \in Times :
                 \E f \in Fetches(Articles, 0..MaxViews, {"t1"}) : SyncArticles(t, f)
    \/ Idle /\ \E now \in Times : \E period \in Periods : get_overview(now, period)
    \/ Return

OverviewSpec == Init /\ [][OverviewNext]_vars

\* The snapshots of the two periods of the call in progress.
CurrentRows == RowsBetween(call.now - call.period, call.now)
PreviousRows == RowsBetween(call.now - 2 * call.period, call.now - call.period)

\* C30 (as claimed): get_overview returns a result without raising for
\* every state of the store, and a period without snapshots is reported
\* with a zero total.
C30_OverviewNeverRaises ==
    call.op = "get_overview" =>
        /\ ~result.raised
        /\ CurrentRows = {} => result.current = 0
        /\ PreviousRows = {} => result.previous = 0

\* What does hold: the call returns, with zero totals for the periods
\* without snapshots, whenever the previous period has no views to compare
\* with (the empty store and snapshots only in the current period included)
\* or the current period has a snapshot.
C30_OverviewReturnsWithoutPrevious ==
    (call.op = "get_overview"
       /\ (SumOfViews(PreviousRows) = 0 \/ CurrentRows # {})) =>
        /\ ~result.raised
        /\ CurrentRows = {} => result.current = 0
        /\ PreviousRows = {} => result.previous = 0
====
